---- MODULE Spec2Model ----
(***************************************************************************)
(* State-machine model of nftableslib's table store (nftables.go) and set  *)
(* store (nfsets.go).  The table registry is the two-level map             *)
(* family -> name -> *nfTable; the connection (NetNS) keeps a queue of     *)
(* pending netlink operations that Flush applies to the kernel.            *)
(***************************************************************************)
EXTENDS Integers, Sequences, FiniteSets, TLC

VARIABLES
    tables,   \* nfTables.tables: family -> name -> table record
    mu,       \* nfTables' embedded sync.Mutex: "free" or "held"
    kernel,   \* tables the kernel holds: <<family, name>> -> [sets, chains]
    pending,  \* operations enqueued on the connection and not yet flushed
    last,     \* the call the caller made last, with what it returned
    hung,     \* the caller is blocked forever in a Lock() call
    ncalls,   \* how many calls and out-of-band changes have been made
    arg,      \* the arguments of the element and key-type functions
    pc        \* where each of the concurrent callers is in the call it is making

vars == <<tables, mu, kernel, pending, last, hung, ncalls, arg, pc>>

----------------------------------------------------------------------------
(* Bounds of the model *)

\* longest series of calls (and out-of-band kernel changes) explored
MaxCalls == 3

\* calls made on the set store of a table
MaxSetCalls == 2

Families == {"ip", "ip6"}
Names == {"a", "b"}
SetNames == {"s1", "s2"}
ChainNames == {"c1"}
Keys == Families \X Names
\* the tables the caller and the other process name
TableKeys == {<<"ip", "a">>, <<"ip", "b">>, <<"ip6", "a">>}

\* the goroutines that call a store at the same time
Callers == {"t1", "t2"}

\* a caller that is in no call
Idle == [at |-> "idle"]

\* no caller is in a call
NoCallers == [t \in Callers |-> Idle]

EmptyMap == [x \in {} |-> 0]

MapPut(m, k, v) == [x \in (DOMAIN m) \cup {k} |-> IF x = k THEN v ELSE m[x]]

MapDel(m, k) == [x \in (DOMAIN m) \ {k} |-> m[x]]

\* every listing order of the members of S
Orders(S) == {s \in [1..Cardinality(S) -> S] : \A i, j \in 1..Cardinality(S) : s[i] = s[j] => i = j}

\* the members of seq that are in S, in their order
RECURSIVE Filter(_, _)
Filter(seq, S) ==
    IF seq = <<>> THEN <<>>
    ELSE IF Head(seq) \in S THEN <<Head(seq)>> \o Filter(Tail(seq), S)
    ELSE Filter(Tail(seq), S)

----------------------------------------------------------------------------
(* The connection: AddTable/DelTable enqueue, Flush applies, List* query *)

AddTableOp(f, n) == [op |-> "addtable", fam |-> f, name |-> n]

DelTableOp(f, n) == [op |-> "deltable", fam |-> f, name |-> n]

NoContent == [sets |-> {}, chains |-> {}]

\* AddSet(s, elements), DelSet(s), SetAddElements and SetDeleteElements on table key
AddSetOp(key, set, elems) ==
    [op |-> "addset", fam |-> key[1], name |-> key[2], set |-> set, elems |-> elems]

DelSetOp(key, set) == [op |-> "delset", fam |-> key[1], name |-> key[2], set |-> set]

ElementsOp(op, key, set, elems) ==
    [op |-> op, fam |-> key[1], name |-> key[2], set |-> set, elems |-> elems]

\* the kernel's answer to one queued operation (the elements of a set are not kept)
ApplyOp(k, o) ==
    LET key == <<o.fam, o.name>> IN
    CASE o.op = "addtable" -> IF key \in DOMAIN k THEN k ELSE MapPut(k, key, NoContent)
      [] o.op = "deltable" -> MapDel(k, key)
      [] o.op = "addset" ->
            IF key \in DOMAIN k THEN [k EXCEPT ![key].sets = @ \cup {o.set.Name}] ELSE k
      [] o.op = "delset" ->
            IF key \in DOMAIN k THEN [k EXCEPT ![key].sets = @ \ {o.set.Name}] ELSE k
      [] OTHER -> k

RECURSIVE ApplyAll(_, _)
ApplyAll(k, q) == IF q = <<>> THEN k ELSE ApplyAll(ApplyOp(k, Head(q)), Tail(q))

FlushOutcomes == {"ok", "EEXIST", "EIO"}

\* conn.Flush(): all-or-nothing, the queue is dropped either way
Flush(k, q, outcome) ==
    [kernel |-> IF outcome = "ok" THEN ApplyAll(k, q) ELSE k,
     pending |-> <<>>,
     err |-> IF outcome = "ok" THEN "nil" ELSE outcome]

\* conn.ListTables(): every kernel table, of every family
ListTables(k) == DOMAIN k

----------------------------------------------------------------------------
(* The table registry *)

HasFamily(reg, f) == f \in DOMAIN reg

HasTable(reg, f, n) == f \in DOMAIN reg /\ n \in DOMAIN reg[f]

LocalKeys(reg) == {key \in Keys : HasTable(reg, key[1], key[2])}

\* &nfTable{table: t, ChainsInterface: newChains(..), SetsInterface: newSets(..)}
newTable(f, n) ==
    [table |-> [Family |-> f, Name |-> n],
     chains |-> {},
     sets |-> EmptyMap,
     slock |-> FALSE]

SetRec(reg, f, n, rec) == MapPut(reg, f, MapPut(reg[f], n, rec))

\* both of a record's stores are there (ChainsInterface != nil && SetsInterface != nil)
Instantiated(rec) == "chains" \in DOMAIN rec /\ "sets" \in DOMAIN rec

\* create without the look-up: a record is allocated on every call
createAlways(reg, n, f) ==
    LET reg1 == IF HasFamily(reg, f) THEN reg ELSE MapPut(reg, f, EmptyMap)
    IN [reg |-> SetRec(reg1, f, n, newTable(f, n)), alloc |-> TRUE]

\* nfTables.create: the registry afterwards, and whether a record was allocated
create(reg, n, f) ==
    IF HasTable(reg, f, n) /\ Instantiated(reg[f][n])
    THEN [reg |-> reg, alloc |-> FALSE]
    ELSE LET reg1 == IF HasFamily(reg, f) THEN reg ELSE MapPut(reg, f, EmptyMap)
         IN [reg |-> SetRec(reg1, f, n, newTable(f, n)), alloc |-> TRUE]

\* get without the t.Family == familyType test
getAnyFamily(k, f, listOk) ==
    IF listOk
    THEN [err |-> "nil", names |-> {key[2] : key \in ListTables(k)}]
    ELSE [err |-> "err", names |-> {}]

\* nfTables.get: the names of the kernel's tables of one family
get(k, f, listOk) ==
    IF listOk
    THEN [err |-> "nil", names |-> {key[2] : key \in {x \in ListTables(k) : x[1] = f}}]
    ELSE [err |-> "err", names |-> {}]

\* what a call saw of conn.ListTables(): not called, answered, or failed
Listing(listOk) == IF listOk THEN "ok" ELSE "err"

\* nfTables.Exist: the answer, and what became of the kernel listing
Exist(reg, k, n, f, listOk) ==
    IF HasTable(reg, f, n)
    THEN [ret |-> TRUE, list |-> "none"]
    ELSE LET g == get(k, f, listOk) IN
         [ret |-> g.err = "nil" /\ n \in g.names, list |-> Listing(listOk)]

\* Delete that leaves the record in the map
DeleteNameSkip(reg, n, f) == reg

\* Delete's first step: delete(nft.tables[familyType], name) when the record is there
DeleteName(reg, n, f) ==
    IF HasTable(reg, f, n) THEN MapPut(reg, f, MapDel(reg[f], n)) ELSE reg

\* Delete that keeps the key of an emptied family
PruneFamilyNever(reg, f) == reg

\* Delete's last step: a family with no table left loses its key
PruneFamily(reg, f) ==
    IF HasFamily(reg, f) /\ DOMAIN reg[f] # {} THEN reg ELSE MapDel(reg, f)

\* Delete that asks Exist before it removes the record
DeleteCheckFirst(reg, k, n, f, listOk) ==
    LET e == Exist(reg, k, n, f, listOk)
    IN [reg |-> PruneFamily(DeleteName(reg, n, f), f),
        enq |-> IF e.ret THEN <<DelTableOp(f, n)>> ELSE <<>>,
        list |-> e.list,
        removed |-> HasTable(reg, f, n)]

\* nfTables.Delete past its Lock(): the registry afterwards and what was enqueued
Delete(reg, k, n, f, listOk) ==
    LET reg1 == DeleteName(reg, n, f)
        e == Exist(reg1, k, n, f, listOk)
    IN [reg |-> PruneFamily(reg1, f),
        enq |-> IF e.ret THEN <<DelTableOp(f, n)>> ELSE <<>>,
        list |-> e.list,
        removed |-> HasTable(reg, f, n)]

----------------------------------------------------------------------------
(* The stores of one table *)

\* the set descriptor conn.GetSets returns for a kernel set
KernelSet(key, s) == [Name |-> s, Table |-> key, origin |-> "kernel"]

KernelSets(k, key) == IF key \in DOMAIN k THEN k[key].sets ELSE {}

KernelChains(k, key) == IF key \in DOMAIN k THEN k[key].chains ELSE {}

\* the loop of nfSets.Sync over the kernel's sets, in the order they were listed
RECURSIVE SetsSyncLoop(_, _)
SetsSyncLoop(rec, seq) ==
    IF seq = <<>> THEN [rec |-> rec, ret |-> "nil"]
    ELSE IF Head(seq) \in DOMAIN rec.sets THEN SetsSyncLoop(rec, Tail(seq))
    ELSE IF rec.slock THEN [rec |-> rec, ret |-> "blocked"]
    ELSE [rec |-> [rec EXCEPT !.sets = MapPut(@, Head(seq), KernelSet(<<rec.table.Family, rec.table.Name>>, Head(seq))),
                              !.slock = TRUE],
          ret |-> "blocked"]

\* nfSets.Sync
SetsSync(rec, listing, getOk) ==
    IF getOk THEN SetsSyncLoop(rec, listing) ELSE [rec |-> rec, ret |-> "err"]

\* the chain store's Sync: absorbs the kernel's chains of the table
ChainsSync(rec, kchains, listOk) ==
    IF listOk THEN [rec |-> [rec EXCEPT !.chains = @ \cup kchains], ret |-> "nil"]
    ELSE [rec |-> rec, ret |-> "err"]

\* the loop of nfTables.Sync over the kernel's tables of the family, in listing order
RECURSIVE SyncLoop(_, _, _, _, _, _, _)
SyncLoop(reg, k, f, order, cfail, sfail, sorder) ==
    IF order = <<>> THEN [reg |-> reg, ret |-> "nil", alloc |-> {}]
    ELSE LET n == Head(order) IN
         IF HasTable(reg, f, n) THEN SyncLoop(reg, k, f, Tail(order), cfail, sfail, sorder)
         ELSE LET c == create(reg, n, f)
                  al == IF c.alloc THEN {<<f, n>>} ELSE {}
                  cs == ChainsSync(c.reg[f][n], KernelChains(k, <<f, n>>), n \notin cfail)
                  ss == SetsSync(cs.rec, Filter(sorder, KernelSets(k, <<f, n>>)), n \notin sfail)
              IN IF cs.ret # "nil" THEN [reg |-> c.reg, ret |-> cs.ret, alloc |-> al]
                 ELSE IF ss.ret # "nil"
                 THEN [reg |-> SetRec(c.reg, f, n, ss.rec), ret |-> ss.ret, alloc |-> al]
                 ELSE LET rest == SyncLoop(SetRec(c.reg, f, n, ss.rec), k, f, Tail(order),
                                           cfail, sfail, sorder)
                      IN [reg |-> rest.reg, ret |-> rest.ret, alloc |-> al \cup rest.alloc]

----------------------------------------------------------------------------
(* Set datatypes (nftables.SetDatatype: name, byte width, magic tag) *)

TypeInvalid == [Name |-> "invalid", Bytes |-> 0, nftMagic |-> 0]
TypeVerdict == [Name |-> "verdict", Bytes |-> 0, nftMagic |-> 1]
TypeInteger == [Name |-> "integer", Bytes |-> 4, nftMagic |-> 4]
TypeIPAddr == [Name |-> "ipv4_addr", Bytes |-> 4, nftMagic |-> 7]
TypeIP6Addr == [Name |-> "ipv6_addr", Bytes |-> 16, nftMagic |-> 8]
TypeEtherAddr == [Name |-> "ether_addr", Bytes |-> 6, nftMagic |-> 9]
TypeInetProto == [Name |-> "inet_proto", Bytes |-> 1, nftMagic |-> 12]
TypeInetService == [Name |-> "inet_service", Bytes |-> 2, nftMagic |-> 13]
TypeMark == [Name |-> "mark", Bytes |-> 4, nftMagic |-> 19]

----------------------------------------------------------------------------
(* The set store of one table (nfSets) *)

\* a nil *nftables.Set
NilSet == [Name |-> "-"]

\* a key of len zero bytes
ZeroKey(len) == [i \in 1..len |-> 0]

\* the interval-end element CreateSet builds: 0.0.0.0 for an IPv4 table, :: otherwise
IntervalEndElement(fam) ==
    IF fam = "ip"
    THEN [Key |-> ZeroKey(4), IntervalEnd |-> TRUE]
    ELSE [Key |-> ZeroKey(16), IntervalEnd |-> TRUE]

\* se before the caller's elements are appended
SentinelElements(attrs, fam) ==
    IF attrs.Interval /\ attrs.KeyType \in {TypeIPAddr, TypeIP6Addr}
    THEN <<IntervalEndElement(fam)>>
    ELSE <<>>

\* the element list CreateSet passes to conn.AddSet
AddSetElements(se, elements) == elements

\* s := &nftables.Set{...} with the timeout set when attrs has one
NewSet(key, attrs, id) ==
    [Table |-> key, ID |-> id, Name |-> attrs.Name, Anonymous |-> FALSE,
     Constant |-> attrs.Constant, Interval |-> attrs.Interval, IsMap |-> attrs.IsMap,
     HasTimeout |-> attrs.HasTimeout, KeyType |-> attrs.KeyType, DataType |-> attrs.DataType,
     Timeout |-> IF attrs.HasTimeout /\ attrs.Timeout # 0 THEN attrs.Timeout ELSE 0]

\* CreateSet that registers the set before it flushes
CreateSetEager(rec, k, q, attrs, elements, id, addOk, outcome) ==
    LET key == <<rec.table.Family, rec.table.Name>>
        se == SentinelElements(attrs, key[1]) \o elements
        s == NewSet(key, attrs, id)
        handed == AddSetElements(se, elements)
        fl == Flush(k, Append(q, AddSetOp(key, s, handed)), outcome)
    IN IF ~addOk
       THEN [rec |-> rec, kernel |-> k, pending |-> q, ret |-> "err", set |-> NilSet,
             handed |-> handed, enq |-> <<>>, flush |-> <<>>]
       ELSE [rec |-> [rec EXCEPT !.sets = MapPut(@, attrs.Name, s)],
             kernel |-> fl.kernel, pending |-> fl.pending, ret |-> fl.err,
             set |-> IF fl.err = "nil" THEN s ELSE NilSet,
             handed |-> handed, enq |-> <<AddSetOp(key, s, handed)>>, flush |-> <<fl.err>>]

\* nfSets.CreateSet on the set store rec, with the queue q and the kernel k
CreateSet(rec, k, q, attrs, elements, id, addOk, outcome) ==
    LET key == <<rec.table.Family, rec.table.Name>>
        se == SentinelElements(attrs, key[1]) \o elements
        s == NewSet(key, attrs, id)
        handed == AddSetElements(se, elements)
        fl == Flush(k, Append(q, AddSetOp(key, s, handed)), outcome)
    IN IF ~addOk
       THEN [rec |-> rec, kernel |-> k, pending |-> q, ret |-> "err", set |-> NilSet,
             handed |-> handed, enq |-> <<>>, flush |-> <<>>]
       ELSE IF fl.err # "nil"
       THEN [rec |-> rec, kernel |-> fl.kernel, pending |-> fl.pending, ret |-> fl.err,
             set |-> NilSet, handed |-> handed, enq |-> <<AddSetOp(key, s, handed)>>,
             flush |-> <<fl.err>>]
       ELSE [rec |-> [rec EXCEPT !.sets = MapPut(@, attrs.Name, s)],
             kernel |-> fl.kernel, pending |-> fl.pending, ret |-> "nil", set |-> s,
             handed |-> handed, enq |-> <<AddSetOp(key, s, handed)>>, flush |-> <<fl.err>>]

\* conn.GetSetByName(table, name): found when the lookup works and the kernel has the set
LookupSet(k, key, name, lookupOk) == lookupOk /\ name \in KernelSets(k, key)

\* nfSets.Exist answering from the kernel alone
SetExistKernelOnly(rec, k, name, lookupOk) ==
    LookupSet(k, <<rec.table.Family, rec.table.Name>>, name, lookupOk)

\* nfSets.Exist: in the local map and found in the kernel
SetExist(rec, k, name, lookupOk) ==
    /\ name \in DOMAIN rec.sets
    /\ LookupSet(k, <<rec.table.Family, rec.table.Name>>, name, lookupOk)

\* nfs.sets[name]: nil for a name the map does not hold
LocalSet(rec, name) == IF name \in DOMAIN rec.sets THEN rec.sets[name] ELSE NilSet

\* DelSet that drops the local entry before it flushes
DelSetEarly(rec, k, q, name, lookupOk, outcome) ==
    LET key == <<rec.table.Family, rec.table.Name>>
        op == DelSetOp(key, LocalSet(rec, name))
        fl == Flush(k, Append(q, op), outcome)
    IN IF ~SetExist(rec, k, name, lookupOk)
       THEN [rec |-> rec, kernel |-> k, pending |-> q, ret |-> "nil", enq |-> <<>>,
             flush |-> <<>>]
       ELSE [rec |-> [rec EXCEPT !.sets = MapDel(@, name)], kernel |-> fl.kernel,
             pending |-> fl.pending, ret |-> fl.err, enq |-> <<op>>, flush |-> <<fl.err>>]

\* nfSets.DelSet
DelSet(rec, k, q, name, lookupOk, outcome) ==
    LET key == <<rec.table.Family, rec.table.Name>>
        op == DelSetOp(key, LocalSet(rec, name))
        fl == Flush(k, Append(q, op), outcome)
    IN IF ~SetExist(rec, k, name, lookupOk)
       THEN [rec |-> rec, kernel |-> k, pending |-> q, ret |-> "nil", enq |-> <<>>,
             flush |-> <<>>]
       ELSE IF fl.err # "nil"
       THEN [rec |-> rec, kernel |-> fl.kernel, pending |-> fl.pending, ret |-> fl.err,
             enq |-> <<op>>, flush |-> <<fl.err>>]
       ELSE [rec |-> [rec EXCEPT !.sets = MapDel(@, name)], kernel |-> fl.kernel,
             pending |-> fl.pending, ret |-> "nil", enq |-> <<op>>, flush |-> <<fl.err>>]

\* nfSets.GetSetByName: the local map first, then the kernel's descriptor
GetSetByName(rec, k, name, lookupOk) ==
    LET key == <<rec.table.Family, rec.table.Name>> IN
    IF name \notin DOMAIN rec.sets THEN [ret |-> "notfound", set |-> NilSet]
    ELSE IF ~LookupSet(k, key, name, lookupOk) THEN [ret |-> "notfound", set |-> NilSet]
    ELSE [ret |-> "nil", set |-> KernelSet(key, name)]

\* nfSets.GetSetElements: conn.GetSetElements(nfs.sets[name]) when Exist(name)
GetSetElements(rec, k, name, lookupOk, connOk) ==
    IF SetExist(rec, k, name, lookupOk)
    THEN [ret |-> IF connOk THEN "nil" ELSE "err", asked |-> <<LocalSet(rec, name)>>]
    ELSE [ret |-> "notfound", asked |-> <<>>]

\* nfSets.SetAddElements and nfSets.SetDelElements: enqueue, then Flush
SetChangeElements(op, rec, k, q, name, elements, lookupOk, connOk, outcome) ==
    LET key == <<rec.table.Family, rec.table.Name>>
        o == ElementsOp(op, key, LocalSet(rec, name), elements)
        fl == Flush(k, Append(q, o), outcome)
    IN IF ~SetExist(rec, k, name, lookupOk)
       THEN [kernel |-> k, pending |-> q, ret |-> "notfound", enq |-> <<>>, flush |-> <<>>]
       ELSE IF ~connOk
       THEN [kernel |-> k, pending |-> q, ret |-> "err", enq |-> <<>>, flush |-> <<>>]
       ELSE [kernel |-> fl.kernel, pending |-> fl.pending, ret |-> fl.err, enq |-> <<o>>,
             flush |-> <<fl.err>>]

----------------------------------------------------------------------------
(* What a call leaves behind for the caller *)

\* op(name, fam) returned ret; alloc: the tables it allocated a record for; enq: what
\* it enqueued; flush: the result of each Flush it made; list: its kernel table listing
Result(op, n, f, ret, alloc, enq, flush, list) ==
    [op |-> op, name |-> n, fam |-> f, ret |-> ret, alloc |-> alloc, enq |-> enq,
     flush |-> flush, list |-> list, names |-> {}, removed |-> FALSE]

NoCall == Result("none", "-", "-", "nil", {}, <<>>, <<>>, "none")

\* the call never gets past Lock(): the mutex is held and nobody will release it
Blocked(op, n, f) ==
    /\ mu = "held"
    /\ hung' = TRUE
    /\ last' = Result(op, n, f, "blocked", {}, <<>>, <<>>, "none")
    /\ UNCHANGED <<tables, mu, kernel, pending>>

\* the caller is free to make one more call
Step == ~hung /\ ncalls < MaxCalls /\ ncalls' = ncalls + 1 /\ arg' = arg /\ pc' = pc

\* no element or key-type function is being applied
NoArg == [fn |-> "none"]

Init ==
    /\ tables = EmptyMap
    /\ mu = "free"
    /\ kernel = EmptyMap
    /\ pending = <<>>
    /\ last = NoCall
    /\ hung = FALSE
    /\ ncalls = 0
    /\ arg = NoArg
    /\ pc = NoCallers

\* nfTables.Create
Create(n, f) ==
    /\ Step
    /\ \/ Blocked("Create", n, f)
       \/ /\ mu = "free"
          /\ LET c == create(tables, n, f) IN
             /\ tables' = c.reg
             /\ pending' = Append(pending, AddTableOp(f, n))
             /\ last' = Result("Create", n, f, "nil", IF c.alloc THEN {<<f, n>>} ELSE {},
                               <<AddTableOp(f, n)>>, <<>>, "none")
          /\ UNCHANGED <<mu, kernel, hung>>

\* CreateImm that hands every Flush error back
CreateImmResultRaw(err) == err

\* errors.Is(err, unix.EEXIST) is taken for success
CreateImmResult(err) == IF err = "EEXIST" THEN "nil" ELSE err

\* nfTables.CreateImm
CreateImm(n, f) ==
    /\ Step
    /\ \/ Blocked("CreateImm", n, f)
       \/ /\ mu = "free"
          /\ \E outcome \in FlushOutcomes :
                LET c == create(tables, n, f)
                    fl == Flush(kernel, Append(pending, AddTableOp(f, n)), outcome)
                IN /\ tables' = c.reg
                   /\ kernel' = fl.kernel
                   /\ pending' = fl.pending
                   /\ last' = Result("CreateImm", n, f, CreateImmResult(fl.err),
                                     IF c.alloc THEN {<<f, n>>} ELSE {},
                                     <<AddTableOp(f, n)>>, <<fl.err>>, "none")
          /\ UNCHANGED <<mu, hung>>

\* nfTables.Delete
DeleteCall(n, f) ==
    /\ Step
    /\ \/ Blocked("Delete", n, f)
       \/ /\ mu = "free"
          /\ \E listOk \in BOOLEAN :
                LET d == Delete(tables, kernel, n, f, listOk) IN
                /\ tables' = d.reg
                /\ pending' = pending \o d.enq
                /\ last' = [Result("Delete", n, f, "nil", {}, d.enq, <<>>, d.list)
                               EXCEPT !.removed = d.removed]
          /\ UNCHANGED <<mu, kernel, hung>>

\* nfTables.DeleteImm: Delete, then Flush outside the lock
DeleteImm(n, f) ==
    /\ Step
    /\ \/ Blocked("DeleteImm", n, f)
       \/ /\ mu = "free"
          /\ \E listOk \in BOOLEAN, outcome \in FlushOutcomes :
                LET d == Delete(tables, kernel, n, f, listOk)
                    fl == Flush(kernel, pending \o d.enq, outcome)
                IN /\ tables' = d.reg
                   /\ kernel' = fl.kernel
                   /\ pending' = fl.pending
                   /\ last' = [Result("DeleteImm", n, f, fl.err, {}, d.enq, <<fl.err>>, d.list)
                                  EXCEPT !.removed = d.removed]
          /\ UNCHANGED <<mu, hung>>

\* nfTables.Exist, called from outside: it takes no lock
ExistCall(n, f) ==
    /\ Step
    /\ \E listOk \in BOOLEAN :
          LET e == Exist(tables, kernel, n, f, listOk) IN
          last' = Result("Exist", n, f, e.ret, {}, <<>>, <<>>, e.list)
    /\ UNCHANGED <<tables, mu, kernel, pending, hung>>

\* Get answered from the local mirror
GetCached(f) ==
    /\ Step
    /\ mu = "free"
    /\ last' = [Result("Get", "-", f, "nil", {}, <<>>, <<>>, "none")
                EXCEPT !.names = IF HasFamily(tables, f) THEN DOMAIN tables[f] ELSE {}]
    /\ UNCHANGED <<tables, mu, kernel, pending, hung>>

\* nfTables.Get
Get(f) ==
    /\ Step
    /\ \/ Blocked("Get", "-", f)
       \/ /\ mu = "free"
          /\ \E listOk \in BOOLEAN :
                LET g == get(kernel, f, listOk) IN
                last' = [Result("Get", "-", f, g.err, {}, <<>>, <<>>, Listing(listOk))
                           EXCEPT !.names = g.names]
          /\ UNCHANGED <<tables, mu, kernel, pending, hung>>

\* Sync's loop without the family test
SyncListingAll(k, f) == {key[2] : key \in ListTables(k)}

\* the names Sync's loop acts on: the listed tables with t.Family == familyType
SyncListing(k, f) == {key[2] : key \in {x \in ListTables(k) : x[1] = f}}

\* which store's kernel listing fails during a Sync: none, or one table's
SyncFailures ==
    {[chains |-> {}, sets |-> {}]}
        \cup {[chains |-> {n}, sets |-> {}] : n \in Names}
        \cup {[chains |-> {}, sets |-> {n}] : n \in Names}

\* nfTables.Sync: the listing is made under the lock, which an error return keeps;
\* the loop over the listing runs after Unlock()
Sync(f) ==
    /\ Step
    /\ \/ Blocked("Sync", "-", f)
       \/ /\ mu = "free"
          /\ mu' = "held"
          /\ last' = Result("Sync", "-", f, "err", {}, <<>>, <<>>, "err")
          /\ UNCHANGED <<tables, kernel, pending, hung>>
       \/ /\ mu = "free"
          /\ \E torder \in Orders(Names), sorder \in Orders(SetNames), fail \in SyncFailures :
                LET listing == Filter(torder, SyncListing(kernel, f))
                    r == SyncLoop(tables, kernel, f, listing, fail.chains, fail.sets, sorder)
                IN /\ tables' = r.reg
                   /\ hung' = (r.ret = "blocked")
                   /\ last' = Result("Sync", "-", f, r.ret, r.alloc, <<>>, <<>>, "ok")
          /\ UNCHANGED <<mu, kernel, pending>>

\* Sets().Sync() on the set store of a registered table
SetsSyncCall(n, f) ==
    /\ Step
    /\ HasTable(tables, f, n)
    /\ \E sorder \in Orders(SetNames), getOk \in BOOLEAN :
          LET r == SetsSync(tables[f][n], Filter(sorder, KernelSets(kernel, <<f, n>>)), getOk)
          IN /\ tables' = SetRec(tables, f, n, r.rec)
             /\ hung' = (r.ret = "blocked")
             /\ last' = Result("SetsSync", n, f, r.ret, {}, <<>>, <<>>, "none")
    /\ UNCHANGED <<mu, kernel, pending>>

Contents == [sets : SUBSET SetNames, chains : SUBSET ChainNames] \ {NoContent}

\* another process makes a table in the kernel, with its sets and chains
External(n, f) ==
    /\ Step
    /\ <<f, n>> \notin DOMAIN kernel
    /\ \E c \in Contents : kernel' = MapPut(kernel, <<f, n>>, c)
    /\ last' = Result("External", n, f, "nil", {}, <<>>, <<>>, "none")
    /\ UNCHANGED <<tables, mu, pending, hung>>

Next ==
    \/ \E key \in TableKeys : Create(key[2], key[1])
    \/ \E key \in TableKeys : CreateImm(key[2], key[1])
    \/ \E key \in TableKeys : DeleteCall(key[2], key[1])
    \/ \E key \in TableKeys : DeleteImm(key[2], key[1])
    \/ \E key \in TableKeys : ExistCall(key[2], key[1])
    \/ \E f \in Families : Get(f)
    \/ \E f \in Families : Sync(f)
    \/ \E key \in TableKeys : SetsSyncCall(key[2], key[1])
    \/ \E key \in TableKeys : External(key[2], key[1])

Spec == Init /\ [][Next]_vars

----------------------------------------------------------------------------
(* Calls on the set store of one registered table *)

\* the tables whose set store is exercised
SetTables == {<<"ip", "a">>, <<"ip6", "a">>}

\* an element of the 10.0.0.0/24 network
SetElem(b) == [Key |-> <<10, 0, 0, b>>, IntervalEnd |-> FALSE]

ElementLists == {<<>>, <<SetElem(2), SetElem(1)>>}

\* a plain set whose Timeout is not in force, and a constant verdict map with a timeout
PlainSet ==
    [Constant |-> FALSE, IsMap |-> FALSE, HasTimeout |-> FALSE, Timeout |-> 5,
     DataType |-> TypeInvalid]

VerdictMap ==
    [Constant |-> TRUE, IsMap |-> TRUE, HasTimeout |-> TRUE, Timeout |-> 5,
     DataType |-> TypeVerdict]

\* Interval, KeyType and the other attributes of the sets that are created
SetShapes ==
    {<<TRUE, TypeIPAddr, PlainSet>>, <<TRUE, TypeIP6Addr, VerdictMap>>,
     <<FALSE, TypeIPAddr, VerdictMap>>, <<TRUE, TypeInetService, PlainSet>>}

\* the SetAttributes the callers pass
SetAttrs ==
    {[Name |-> n, Constant |-> sh[3].Constant, IsMap |-> sh[3].IsMap,
      HasTimeout |-> sh[3].HasTimeout, Timeout |-> sh[3].Timeout, Interval |-> sh[1],
      KeyType |-> sh[2], DataType |-> sh[3].DataType] : n \in SetNames, sh \in SetShapes}

\* values of uint32(rand.Intn(0xffff)): the least and the greatest
SetIDs == {0, 65534}

\* how a call on the connection and the Flush after it end: a failed call is not flushed
ConnOutcomes == {<<FALSE, "ok">>, <<TRUE, "ok">>, <<TRUE, "EIO">>}

\* how the kernel look-up of a set, the call and the Flush end, the first failure counting
ExistOutcomes == {<<FALSE, o[1], o[2]>> : o \in {<<TRUE, "ok">>}} \cup
                 {<<TRUE, o[1], o[2]>> : o \in ConnOutcomes}

\* the caller makes one more call on the set store
StepSets == ~hung /\ ncalls < MaxSetCalls /\ ncalls' = ncalls + 1 /\ arg' = arg /\ pc' = pc

\* the table is registered and in the kernel, as after CreateImm; it has no set yet
InitSets ==
    /\ \E key \in SetTables :
          /\ tables = create(EmptyMap, key[2], key[1]).reg
          /\ kernel = MapPut(EmptyMap, key, NoContent)
    /\ mu = "free"
    /\ pending = <<>>
    /\ last = NoCall
    /\ hung = FALSE
    /\ ncalls = 0
    /\ arg = NoArg
    /\ pc = NoCallers

\* Sets().CreateSet(attrs, elements)
CreateSetCall(key) ==
    /\ StepSets
    /\ HasTable(tables, key[1], key[2])
    /\ \E attrs \in SetAttrs, elements \in ElementLists, id \in SetIDs, o \in ConnOutcomes :
          LET r == CreateSet(tables[key[1]][key[2]], kernel, pending, attrs, elements, id,
                             o[1], o[2])
          IN /\ tables' = SetRec(tables, key[1], key[2], r.rec)
             /\ kernel' = r.kernel
             /\ pending' = r.pending
             /\ last' = [op |-> "CreateSet", name |-> attrs.Name, table |-> key,
                         ret |-> r.ret, enq |-> r.enq, flush |-> r.flush, set |-> r.set,
                         handed |-> r.handed, attrs |-> attrs, elements |-> elements]
    /\ UNCHANGED <<mu, hung>>

\* Sets().DelSet(name)
DelSetCall(key, name) ==
    /\ StepSets
    /\ HasTable(tables, key[1], key[2])
    /\ \E o \in ConnOutcomes :
          LET r == DelSet(tables[key[1]][key[2]], kernel, pending, name, o[1], o[2])
          IN /\ tables' = SetRec(tables, key[1], key[2], r.rec)
             /\ kernel' = r.kernel
             /\ pending' = r.pending
             /\ last' = [op |-> "DelSet", name |-> name, table |-> key, ret |-> r.ret,
                         enq |-> r.enq, flush |-> r.flush, lookup |-> o[1]]
    /\ UNCHANGED <<mu, hung>>

\* Sets().GetSetByName(name)
GetSetByNameCall(key, name) ==
    /\ StepSets
    /\ HasTable(tables, key[1], key[2])
    /\ \E lookupOk \in BOOLEAN :
          LET r == GetSetByName(tables[key[1]][key[2]], kernel, name, lookupOk)
          IN last' = [op |-> "GetSetByName", name |-> name, table |-> key, ret |-> r.ret,
                      enq |-> <<>>, flush |-> <<>>, set |-> r.set]
    /\ UNCHANGED <<tables, mu, kernel, pending, hung>>

\* Sets().GetSetElements(name)
GetSetElementsCall(key, name) ==
    /\ StepSets
    /\ HasTable(tables, key[1], key[2])
    /\ \E o \in {<<FALSE, TRUE>>, <<TRUE, FALSE>>, <<TRUE, TRUE>>} :
          LET r == GetSetElements(tables[key[1]][key[2]], kernel, name, o[1], o[2])
          IN last' = [op |-> "GetSetElements", name |-> name, table |-> key, ret |-> r.ret,
                      enq |-> <<>>, flush |-> <<>>, asked |-> r.asked]
    /\ UNCHANGED <<tables, mu, kernel, pending, hung>>

\* Sets().SetAddElements(name, elements) and Sets().SetDelElements(name, elements)
SetChangeElementsCall(fn, op, key, name) ==
    /\ StepSets
    /\ HasTable(tables, key[1], key[2])
    /\ \E elements \in ElementLists, o \in ExistOutcomes :
          LET r == SetChangeElements(op, tables[key[1]][key[2]], kernel, pending, name,
                                     elements, o[1], o[2], o[3])
          IN /\ kernel' = r.kernel
             /\ pending' = r.pending
             /\ last' = [op |-> fn, name |-> name, table |-> key, ret |-> r.ret,
                         enq |-> r.enq, flush |-> r.flush]
    /\ UNCHANGED <<tables, mu, hung>>

SetAddElementsCall(key, name) == SetChangeElementsCall("SetAddElements", "addelems", key, name)

SetDelElementsCall(key, name) == SetChangeElementsCall("SetDelElements", "delelems", key, name)

\* another process adds the set to the kernel's table, or removes it
ExternalSet(key, name) ==
    /\ StepSets
    /\ key \in DOMAIN kernel
    /\ kernel' = [kernel EXCEPT ![key].sets =
                     IF name \in @ THEN @ \ {name} ELSE @ \cup {name}]
    /\ last' = [op |-> "ExternalSet", name |-> name, table |-> key, ret |-> "nil",
                enq |-> <<>>, flush |-> <<>>]
    /\ UNCHANGED <<tables, mu, pending, hung>>

NextSets ==
    \/ \E key \in SetTables : CreateSetCall(key)
    \/ \E key \in SetTables, name \in SetNames : DelSetCall(key, name)
    \/ \E key \in SetTables, name \in SetNames : GetSetByNameCall(key, name)
    \/ \E key \in SetTables, name \in SetNames : GetSetElementsCall(key, name)
    \/ \E key \in SetTables, name \in SetNames : SetAddElementsCall(key, name)
    \/ \E key \in SetTables, name \in SetNames : SetDelElementsCall(key, name)
    \/ \E key \in SetTables, name \in SetNames : ExternalSet(key, name)

SpecSets == InitSets /\ [][NextSets]_vars

----------------------------------------------------------------------------
(* The accessors of a table's chain store and set store *)

\* the nil interface returned with the error
NilInterface == [kind |-> "nil"]

\* the look-up that takes the name in whatever family it is registered
TableLookupAnyFamily(reg, n, f, kind) ==
    IF \E g \in Families : HasTable(reg, g, n)
    THEN [ret |-> "nil", iface |-> [kind |-> kind, table |-> [Family |-> f, Name |-> n]]]
    ELSE [ret |-> "notexist", iface |-> NilInterface]

\* if t, ok := nft.tables[familyType][name]; ok { return t.<kind>Interface, nil }
TableLookup(reg, n, f, kind) ==
    IF HasTable(reg, f, n)
    THEN [ret |-> "nil", iface |-> [kind |-> kind, table |-> reg[f][n].table]]
    ELSE [ret |-> "notexist", iface |-> NilInterface]

\* nfTables.Table, nfTables.TableChains and nfTables.TableSets
TableCall(fn, kind, n, f) ==
    /\ Step
    /\ \/ Blocked(fn, n, f)
       \/ /\ mu = "free"
          /\ LET r == TableLookup(tables, n, f, kind)
             IN last' = [op |-> fn, name |-> n, fam |-> f, ret |-> r.ret, iface |-> r.iface]
          /\ UNCHANGED <<tables, mu, kernel, pending, hung>>

Table(n, f) == TableCall("Table", "chains", n, f)

TableChains(n, f) == TableCall("TableChains", "chains", n, f)

TableSets(n, f) == TableCall("TableSets", "sets", n, f)

NextAccess ==
    \/ \E key \in TableKeys : Create(key[2], key[1])
    \/ \E key \in TableKeys : DeleteCall(key[2], key[1])
    \/ \E f \in Families : Sync(f)
    \/ \E key \in TableKeys : External(key[2], key[1])
    \/ \E key \in TableKeys : Table(key[2], key[1])
    \/ \E key \in TableKeys : TableChains(key[2], key[1])
    \/ \E key \in TableKeys : TableSets(key[2], key[1])

SpecAccess == Init /\ [][NextAccess]_vars

----------------------------------------------------------------------------
(* Callers of the table store running at the same time *)

\* the statements of Create, Delete and Sync that read or write nft.tables
RegistryLabels == {"create", "remove", "prune", "lookup", "check", "store"}

\* no goroutine has panicked or met a fatal error of the runtime: the process runs
Running == \A t \in Callers : pc[t].at \notin {"panic", "fatal"}

\* caller t starts a call
Begin(t) ==
    /\ Running
    /\ pc[t] = Idle
    /\ ncalls < MaxCalls
    /\ ncalls' = ncalls + 1
    /\ UNCHANGED <<arg, hung>>

\* caller t executes the statement it is at
At(t, label) == Running /\ pc[t].at = label /\ UNCHANGED <<ncalls, arg, hung>>

Goto(t, rec) == pc' = [pc EXCEPT ![t] = rec]

\* the call of caller t returns
Return(t, ret) ==
    /\ Goto(t, Idle)
    /\ last' = Result(pc[t].op, pc[t].name, pc[t].fam, ret, {}, <<>>, <<>>, "none")

\* Create: nft.Lock()
ConcCreateLock(t, n, f) ==
    /\ Begin(t)
    /\ mu = "free"
    /\ mu' = "held"
    /\ Goto(t, [at |-> "create", op |-> "Create", name |-> n, fam |-> f])
    /\ UNCHANGED <<tables, kernel, pending, last>>

\* Create: nft.conn.AddTable(nft.create(name, familyType).table) and the deferred Unlock()
ConcCreateBody(t) ==
    /\ At(t, "create")
    /\ tables' = create(tables, pc[t].name, pc[t].fam).reg
    /\ pending' = Append(pending, AddTableOp(pc[t].fam, pc[t].name))
    /\ mu' = "free"
    /\ Return(t, "nil")
    /\ UNCHANGED kernel

\* Delete: nft.Lock()
ConcDeleteLock(t, n, f) ==
    /\ Begin(t)
    /\ mu = "free"
    /\ mu' = "held"
    /\ Goto(t, [at |-> "remove", op |-> "Delete", name |-> n, fam |-> f])
    /\ UNCHANGED <<tables, kernel, pending, last>>

\* Delete: delete(nft.tables[familyType], name), then Exist and DelTable
ConcDeleteRemove(t) ==
    /\ At(t, "remove")
    /\ \E listOk \in BOOLEAN :
          LET reg1 == DeleteName(tables, pc[t].name, pc[t].fam)
              e == Exist(reg1, kernel, pc[t].name, pc[t].fam, listOk)
          IN /\ tables' = reg1
             /\ pending' = IF e.ret THEN Append(pending, DelTableOp(pc[t].fam, pc[t].name))
                           ELSE pending
    /\ Goto(t, [pc[t] EXCEPT !.at = "prune"])
    /\ UNCHANGED <<mu, kernel, last>>

\* Delete: delete(nft.tables, familyType) of an emptied family and the deferred Unlock()
ConcDeletePrune(t) ==
    /\ At(t, "prune")
    /\ tables' = PruneFamily(tables, pc[t].fam)
    /\ mu' = "free"
    /\ Return(t, "nil")
    /\ UNCHANGED <<kernel, pending>>

\* Sync goes on to the next listed table, or returns nil after the last
SyncAdvance(t, f, todo) ==
    IF todo = <<>>
    THEN /\ Goto(t, Idle)
         /\ last' = Result("Sync", "-", f, "nil", {}, <<>>, <<>>, "ok")
    ELSE /\ Goto(t, [at |-> "lookup", op |-> "Sync", name |-> Head(todo), fam |-> f,
                     todo |-> Tail(todo)])
         /\ last' = last

\* Sync: Lock(), ListTables() and, unless it failed, Unlock()
ConcSyncList(t, f) ==
    /\ Begin(t)
    /\ mu = "free"
    /\ \/ /\ mu' = "held"
          /\ pc' = pc
          /\ last' = Result("Sync", "-", f, "err", {}, <<>>, <<>>, "err")
       \/ /\ mu' = mu
          /\ \E torder \in Orders(Names) :
                SyncAdvance(t, f, Filter(torder, SyncListing(kernel, f)))
    /\ UNCHANGED <<tables, kernel, pending>>

\* Sync: _, ok := nft.tables[familyType][t.Name], after the Unlock()
ConcSyncLookup(t) ==
    /\ At(t, "lookup")
    /\ IF HasTable(tables, pc[t].fam, pc[t].name)
       THEN SyncAdvance(t, pc[t].fam, pc[t].todo)
       ELSE Goto(t, [pc[t] EXCEPT !.at = "check"]) /\ last' = last
    /\ UNCHANGED <<tables, mu, kernel, pending>>

\* Sync: Chains().Sync() and Sets().Sync() of the record create returned
SyncStores(t, reg) ==
    LET f == pc[t].fam
        n == pc[t].name
    IN \E fail \in {"none", "chains", "sets"}, sorder \in Orders(SetNames) :
          LET cs == ChainsSync(reg[f][n], KernelChains(kernel, <<f, n>>), fail # "chains")
              ss == SetsSync(cs.rec, Filter(sorder, KernelSets(kernel, <<f, n>>)),
                             fail # "sets")
          IN IF cs.ret # "nil" THEN tables' = reg /\ Return(t, cs.ret)
             ELSE /\ tables' = SetRec(reg, f, n, ss.rec)
                  /\ IF ss.ret = "nil" THEN SyncAdvance(t, f, pc[t].todo)
                     ELSE IF ss.ret = "blocked"
                     THEN Goto(t, [pc[t] EXCEPT !.at = "blocked"]) /\ last' = last
                     ELSE Return(t, ss.ret)

\* Sync in create: the test of the family's map, which is made when it is missing, and
\* the test of the record
ConcSyncCheck(t) ==
    /\ At(t, "check")
    /\ IF HasTable(tables, pc[t].fam, pc[t].name)
          /\ Instantiated(tables[pc[t].fam][pc[t].name])
       THEN SyncStores(t, tables)
       ELSE /\ tables' = IF HasFamily(tables, pc[t].fam) THEN tables
                         ELSE MapPut(tables, pc[t].fam, EmptyMap)
            /\ Goto(t, [pc[t] EXCEPT !.at = "store"])
            /\ last' = last
    /\ UNCHANGED <<mu, kernel, pending>>

\* Sync in create: nft.tables[familyType][name] = &nfTable{...}, which panics when the
\* family's map is nil (assignment to entry in nil map)
ConcSyncStore(t) ==
    /\ At(t, "store")
    /\ IF HasFamily(tables, pc[t].fam)
       THEN SyncStores(t, SetRec(tables, pc[t].fam, pc[t].name,
                                 newTable(pc[t].fam, pc[t].name)))
       ELSE /\ tables' = tables
            /\ Goto(t, [pc[t] EXCEPT !.at = "panic"])
            /\ last' = Result("Sync", pc[t].name, pc[t].fam, "panic", {}, <<>>, <<>>, "ok")
    /\ UNCHANGED <<mu, kernel, pending>>

\* caller t is at a statement that writes the registry
WritesRegistry(t) ==
    \/ pc[t].at \in {"create", "remove", "prune", "store"}
    \/ pc[t].at = "check" /\ ~HasFamily(tables, pc[t].fam)

\* two callers are at the registry and one of them writes it: a data race on a Go map
Races(t) ==
    /\ pc[t].at \in RegistryLabels
    /\ \E u \in Callers \ {t} :
          pc[u].at \in RegistryLabels /\ (WritesRegistry(t) \/ WritesRegistry(u))

\* a race on the map may end the process: "fatal error: concurrent map read and map
\* write" or "concurrent map writes"; when it does not, the statements run as above
ConcFatal(t) ==
    /\ Running
    /\ Races(t)
    /\ Goto(t, [pc[t] EXCEPT !.at = "fatal"])
    /\ last' = Result(pc[t].op, pc[t].name, pc[t].fam, "fatal", {}, <<>>, <<>>, "none")
    /\ UNCHANGED <<tables, mu, kernel, pending, hung, ncalls, arg>>

\* tables the kernel has and the registry mirrors when the callers start
InitConc ==
    /\ \E local \in SUBSET {<<"ip", "a">>} :
          tables = IF local = {} THEN EmptyMap ELSE create(EmptyMap, "a", "ip").reg
    /\ \E known \in SUBSET {<<"ip", "a">>, <<"ip", "b">>} :
          kernel = [key \in known |-> NoContent]
    /\ mu = "free"
    /\ pending = <<>>
    /\ last = NoCall
    /\ hung = FALSE
    /\ ncalls = 0
    /\ arg = NoArg
    /\ pc = NoCallers

NextConc ==
    \E t \in Callers :
       \/ \E key \in TableKeys : ConcCreateLock(t, key[2], key[1])
       \/ ConcCreateBody(t)
       \/ \E key \in TableKeys : ConcDeleteLock(t, key[2], key[1])
       \/ ConcDeleteRemove(t)
       \/ ConcDeletePrune(t)
       \/ \E f \in Families : ConcSyncList(t, f)
       \/ ConcSyncLookup(t)
       \/ ConcSyncCheck(t)
       \/ ConcSyncStore(t)
       \/ ConcFatal(t)

SpecConc == InitConc /\ [][NextConc]_vars

----------------------------------------------------------------------------
(* Callers of the set store of one table running at the same time *)

\* the table whose set store the callers share
ConcTable == <<"ip", "a">>

\* the nfSets of that table
ConcStore == tables[ConcTable[1]][ConcTable[2]]

\* the calls that ask Exist and then read nfs.sets[name] for the connection
SetReaders == {"DelSet", "GetSetElements", "SetAddElements", "SetDelElements"}

\* what a call on the set store leaves behind: the descriptor it handed the connection
SetResult(t, ret, handed) ==
    last' = [op |-> pc[t].op, name |-> pc[t].name, table |-> ConcTable, ret |-> ret,
             handed |-> handed]

\* nfs.Exist(name) at the head of DelSet, GetSetElements, SetAddElements and
\* SetDelElements: the map is read under the lock, the kernel is asked after Unlock()
ConcSetExist(t, op, name) ==
    /\ Begin(t)
    /\ ~ConcStore.slock
    /\ \E lookupOk \in BOOLEAN :
          IF SetExist(ConcStore, kernel, name, lookupOk)
          THEN Goto(t, [at |-> "read", op |-> op, name |-> name]) /\ last' = last
          ELSE /\ pc' = pc
               /\ last' = [op |-> op, name |-> name, table |-> ConcTable,
                           ret |-> IF op = "DelSet" THEN "nil" ELSE "notfound",
                           handed |-> <<>>]
    /\ UNCHANGED <<tables, mu, kernel, pending>>

\* nfs.sets[name], read without the lock, is handed to the connection, which
\* dereferences it; then the Flush of DelSet, SetAddElements and SetDelElements
ConcSetRead(t) ==
    /\ At(t, "read")
    /\ LET set == LocalSet(ConcStore, pc[t].name)
           o == IF pc[t].op = "DelSet" THEN DelSetOp(ConcTable, set)
                ELSE ElementsOp(pc[t].op, ConcTable, set, <<SetElem(1)>>)
       IN IF set = NilSet
          THEN /\ Goto(t, [pc[t] EXCEPT !.at = "panic"])
               /\ SetResult(t, "panic", <<set>>)
               /\ UNCHANGED <<kernel, pending>>
          ELSE IF pc[t].op = "GetSetElements"
          THEN /\ \E getOk \in BOOLEAN :
                     Goto(t, Idle) /\ SetResult(t, IF getOk THEN "nil" ELSE "err", <<set>>)
               /\ UNCHANGED <<kernel, pending>>
          ELSE \E outcome \in {"ok", "EIO"} :
                  LET fl == Flush(kernel, Append(pending, o), outcome)
                  IN /\ kernel' = fl.kernel
                     /\ pending' = fl.pending
                     /\ IF pc[t].op = "DelSet" /\ fl.err = "nil"
                        THEN Goto(t, [pc[t] EXCEPT !.at = "delete"]) /\ last' = last
                        ELSE Goto(t, Idle) /\ SetResult(t, fl.err, <<set>>)
    /\ UNCHANGED <<tables, mu>>

\* DelSet: Lock(), delete(nfs.sets, name) and the deferred Unlock()
ConcDelSetDelete(t) ==
    /\ At(t, "delete")
    /\ ~ConcStore.slock
    /\ tables' = SetRec(tables, ConcTable[1], ConcTable[2],
                        [ConcStore EXCEPT !.sets = MapDel(@, pc[t].name)])
    /\ Goto(t, Idle)
    /\ SetResult(t, "nil", <<LocalSet(ConcStore, pc[t].name)>>)
    /\ UNCHANGED <<mu, kernel, pending>>

\* CreateSet: conn.AddSet and Flush, made before the lock is taken
ConcCreateSetAdd(t, attrs) ==
    /\ Begin(t)
    /\ \E o \in ConnOutcomes :
          LET set == NewSet(ConcTable, attrs, 0)
              fl == Flush(kernel, Append(pending, AddSetOp(ConcTable, set, <<>>)), o[2])
          IN IF ~o[1]
             THEN /\ pc' = pc
                  /\ last' = [op |-> "CreateSet", name |-> attrs.Name, table |-> ConcTable,
                              ret |-> "err", handed |-> <<set>>]
                  /\ UNCHANGED <<kernel, pending>>
             ELSE /\ kernel' = fl.kernel
                  /\ pending' = fl.pending
                  /\ IF fl.err # "nil"
                     THEN /\ pc' = pc
                          /\ last' = [op |-> "CreateSet", name |-> attrs.Name,
                                      table |-> ConcTable, ret |-> fl.err,
                                      handed |-> <<set>>]
                     ELSE /\ Goto(t, [at |-> "put", op |-> "CreateSet", name |-> attrs.Name,
                                       set |-> set])
                          /\ last' = last
    /\ UNCHANGED <<tables, mu>>

\* CreateSet: Lock(), nfs.sets[attrs.Name] = s and the deferred Unlock()
ConcCreateSetPut(t) ==
    /\ At(t, "put")
    /\ ~ConcStore.slock
    /\ tables' = SetRec(tables, ConcTable[1], ConcTable[2],
                        [ConcStore EXCEPT !.sets = MapPut(@, pc[t].name, pc[t].set)])
    /\ Goto(t, Idle)
    /\ SetResult(t, "nil", <<pc[t].set>>)
    /\ UNCHANGED <<mu, kernel, pending>>

\* caller t reads the set map without the lock while another caller is at a write of it:
\* the race may end the process with "fatal error: concurrent map read and map write"
ConcSetFatal(t) ==
    /\ At(t, "read")
    /\ \E u \in Callers \ {t} : pc[u].at \in {"delete", "put"}
    /\ Goto(t, [pc[t] EXCEPT !.at = "fatal"])
    /\ SetResult(t, "fatal", <<>>)
    /\ UNCHANGED <<tables, mu, kernel, pending>>

\* the sets the store holds when the callers start, each of them in the kernel
InitConcSets ==
    /\ \E held \in SUBSET SetNames :
          /\ tables = SetRec(create(EmptyMap, ConcTable[2], ConcTable[1]).reg,
                             ConcTable[1], ConcTable[2],
                             [newTable(ConcTable[1], ConcTable[2]) EXCEPT
                                 !.sets = [n \in held |->
                                             NewSet(ConcTable,
                                                    CHOOSE a \in SetAttrs :
                                                       a.Name = n /\ ~a.Interval, 0)]])
          /\ kernel = MapPut(EmptyMap, ConcTable, [NoContent EXCEPT !.sets = held])
    /\ mu = "free"
    /\ pending = <<>>
    /\ last = NoCall
    /\ hung = FALSE
    /\ ncalls = 0
    /\ arg = NoArg
    /\ pc = NoCallers

NextConcSets ==
    \E t \in Callers :
       \/ \E op \in SetReaders, name \in SetNames : ConcSetExist(t, op, name)
       \/ ConcSetRead(t)
       \/ ConcDelSetDelete(t)
       \/ \E attrs \in {a \in SetAttrs : ~a.Interval} : ConcCreateSetAdd(t, attrs)
       \/ ConcCreateSetPut(t)
       \/ ConcSetFatal(t)

SpecConcSets == InitConcSets /\ [][NextConcSets]_vars

----------------------------------------------------------------------------
(* Set elements and key types (MakeElement, MakeConcatElement, GenSetKeyType) *)

\* most key types, and values, in one concatenated key
MaxKeys == 2

\* a pointer is <<>> when nil and <<v>> when it points to v; a byte slice likewise is <<>>
\* when nil and <<bytes>> otherwise

\* binaryutil.BigEndian.PutUint16 and PutUint32: v in n bytes, the most significant first
RECURSIVE BigEndian(_, _)
BigEndian(v, n) == IF n = 0 THEN <<>> ELSE Append(BigEndian(v \div 256, n - 1), v % 256)

\* a copy that is as long as b, with no alignment
Pad4None(b) == b

\* ba := make([]byte, l); copy(ba, b) with l the length of b aligned to 4 bytes
Pad4(b) == b \o ZeroKey(IF Len(b) % 4 # 0 THEN 4 - (Len(b) % 4) ELSE 0)

\* the key types processElementValue has a case for
SupportedKeyTypes ==
    {TypeInteger, TypeMark, TypeIPAddr, TypeIP6Addr, TypeEtherAddr, TypeInetProto,
     TypeInetService}

\* the field of the value that a key type reads
KeyField(keyT, keyV) ==
    CASE keyT = TypeInteger -> keyV.Integer
      [] keyT = TypeMark -> keyV.Mark
      [] keyT \in {TypeIPAddr, TypeIP6Addr} -> keyV.IPAddr
      [] keyT = TypeEtherAddr -> keyV.EtherAddr
      [] keyT = TypeInetProto -> keyV.InetProto
      [] keyT = TypeInetService -> keyV.InetService

\* the bytes of the value v of a key type, before the alignment
KeyBytes(keyT, v) ==
    CASE keyT \in {TypeInteger, TypeMark} -> BigEndian(v, 4)
      [] keyT \in {TypeIPAddr, TypeIP6Addr, TypeEtherAddr} -> v
      [] keyT = TypeInetProto -> <<v>>
      [] keyT = TypeInetService -> BigEndian(v, 2)

\* processElementValue
processElementValue(keyT, keyV) ==
    IF keyT \notin SupportedKeyTypes THEN [err |-> "unsupported", b |-> <<>>]
    ELSE IF KeyField(keyT, keyV) = <<>> THEN [err |-> "nilvalue", b |-> <<>>]
    ELSE [err |-> "nil", b |-> Pad4(KeyBytes(keyT, Head(KeyField(keyT, keyV))))]

\* the loop of MakeConcatElement from the i-th key on, key being what is encoded so far
RECURSIVE ConcatLoop(_, _, _, _)
ConcatLoop(keys, vals, i, key) ==
    IF i > Len(keys) THEN [err |-> "nil", key |-> key]
    ELSE LET r == processElementValue(keys[i], vals[i])
         IN IF r.err # "nil" THEN [err |-> r.err, key |-> <<>>]
            ELSE ConcatLoop(keys, vals, i + 1, key \o r.b)

\* MakeConcatElement that takes a nil action
MakeConcatElementAnyAction(keys, vals, ra) ==
    IF Len(keys) = 0 THEN [err |-> "nokeys", element |-> <<>>]
    ELSE IF Len(keys) # Len(vals) THEN [err |-> "mismatch", element |-> <<>>]
    ELSE LET r == ConcatLoop(keys, vals, 1, <<>>)
         IN IF r.err # "nil" THEN [err |-> r.err, element |-> <<>>]
            ELSE [err |-> "nil",
                  element |-> <<[Key |-> Pad4(r.key),
                                 VerdictData |-> IF ra = <<>> THEN "nil" ELSE Head(ra).verdict]>>]

\* MakeConcatElement: the error, or the element with its key and verdict
MakeConcatElement(keys, vals, ra) ==
    IF ra = <<>> THEN [err |-> "nilverdict", element |-> <<>>]
    ELSE IF Len(keys) = 0 THEN [err |-> "nokeys", element |-> <<>>]
    ELSE IF Len(keys) # Len(vals) THEN [err |-> "mismatch", element |-> <<>>]
    ELSE LET r == ConcatLoop(keys, vals, 1, <<>>)
         IN IF r.err # "nil" THEN [err |-> r.err, element |-> <<>>]
            ELSE [err |-> "nil",
                  element |-> <<[Key |-> Pad4(r.key), VerdictData |-> Head(ra).verdict]>>]

\* nftables.SetConcatTypeBits: the bits one component's tag takes in a concatenated tag
SetConcatTypeBits == 6

\* a | b on unsigned integers
RECURSIVE BitOr(_, _)
BitOr(a, b) ==
    IF a = 0 THEN b
    ELSE IF b = 0 THEN a
    ELSE (IF a % 2 = 1 \/ b % 2 = 1 THEN 1 ELSE 0) + 2 * BitOr(a \div 2, b \div 2)

\* the width left as the datatype has it
RoundBytesNone(bytes) == bytes

\* the width GenSetKeyType counts for a datatype of the given width
RoundBytes(bytes) ==
    IF bytes <= 4 THEN 4
    ELSE IF bytes % 4 # 0 THEN bytes + (4 - (bytes % 4))
    ELSE bytes

\* the loop of GenSetKeyType at index i (from 0), with name, c and b as they stand; c and
\* b are uint32 and do not wrap for five types or fewer, at 6 bits and 16 bytes a type
RECURSIVE GenSetKeyTypeLoop(_, _, _, _, _)
GenSetKeyTypeLoop(types, i, name, c, b) ==
    IF ~(i < Len(types)) THEN [Name |-> name, Bytes |-> b, nftMagic |-> c]
    ELSE LET t == types[i + 1]
             name1 == name \o "_" \o t.Name
             c1 == BitOr(c * 2^SetConcatTypeBits, t.nftMagic)
             b1 == b + RoundBytes(t.Bytes)
             name2 == name1 \o t.Name
             name3 == IF i < Len(types) THEN name2 \o "_" ELSE name2
         IN GenSetKeyTypeLoop(types, i + 1, name3, c1, b1)

\* GenSetKeyType
GenSetKeyType(types) ==
    CASE Len(types) = 0 -> TypeInvalid
      [] Len(types) = 1 ->
            [Name |-> types[1].Name, Bytes |-> RoundBytes(types[1].Bytes),
             nftMagic |-> types[1].nftMagic]
      [] OTHER -> GenSetKeyTypeLoop(types, 0, "concat", 0, 0)

\* the addresses NewIPAddr parses, with the bytes of each
ParsedIP == [a \in {"192.0.2.1", "::1"} |->
                IF a = "192.0.2.1" THEN <<192, 0, 2, 1>> ELSE ZeroKey(15) \o <<1>>]

\* NewIPAddr: the address of a string, or the parse error
NewIPAddr(str) ==
    IF str \in DOMAIN ParsedIP
    THEN [err |-> "nil", addr |-> [IP |-> ParsedIP[str]]]
    ELSE [err |-> "parse", addr |-> [IP |-> <<>>]]

\* IPAddr.IsIPv6
IsIPv6(addr) == Len(addr.IP) = 16

\* buildElementRanges of one address: the element whose key is the address
buildElementRanges(addrs) ==
    <<[Key |-> addrs[1].IP, Val |-> <<>>, VerdictData |-> "nil", IntervalEnd |-> FALSE]>>

\* the case of MakeElement for an address value
MakeElementAddrIP(addr, elements, input) ==
    LET v == NewIPAddr(Head(input.AddrIP)) IN
    IF v.err # "nil" THEN [err |-> v.err, elements |-> <<>>]
    ELSE IF IsIPv6(addr) /\ ~IsIPv6(v.addr) THEN [err |-> "mix", elements |-> <<>>]
    ELSE IF ~IsIPv6(addr) /\ IsIPv6(v.addr) THEN [err |-> "mix", elements |-> <<>>]
    ELSE [err |-> "nil", elements |-> [elements EXCEPT ![1].Val = v.addr.IP]]

\* MakeElement with the port case ahead of the address case
MakeElementPortFirst(input) ==
    LET a == NewIPAddr(input.Addr)
        elements == buildElementRanges(<<a.addr>>)
    IN IF a.err # "nil" THEN [err |-> a.err, elements |-> <<>>]
       ELSE IF input.Port # <<>>
       THEN [err |-> "nil",
             elements |-> [elements EXCEPT ![1].Val = BigEndian(Head(input.Port), 2)]]
       ELSE IF input.AddrIP # <<>> THEN MakeElementAddrIP(a.addr, elements, input)
       ELSE IF input.Action # <<>>
       THEN [err |-> "nil",
             elements |-> [elements EXCEPT ![1].VerdictData = Head(input.Action).verdict]]
       ELSE [err |-> "nil", elements |-> elements]

\* MakeElement: the error, or the elements with the one value attached to the first
MakeElement(input) ==
    LET a == NewIPAddr(input.Addr)
        elements == buildElementRanges(<<a.addr>>)
    IN IF a.err # "nil" THEN [err |-> a.err, elements |-> <<>>]
       ELSE IF input.AddrIP # <<>> THEN MakeElementAddrIP(a.addr, elements, input)
       ELSE IF input.Port # <<>>
       THEN [err |-> "nil",
             elements |-> [elements EXCEPT ![1].Val = BigEndian(Head(input.Port), 2)]]
       ELSE IF input.Action # <<>>
       THEN [err |-> "nil",
             elements |-> [elements EXCEPT ![1].VerdictData = Head(input.Action).verdict]]
       ELSE [err |-> "nil", elements |-> elements]

----------------------------------------------------------------------------
(* The L3 compiler (createL3 and the field compilers) *)

\* the first 12 bytes of an IPv4 address in 16 bytes
V4InV6Prefix == ZeroKey(10) \o <<255, 255>>

\* net.IP.To4: the 4 bytes of an IPv4 address, nil for any other
To4(ip) ==
    IF Len(ip) = 4 THEN ip
    ELSE IF Len(ip) = 16 /\ SubSeq(ip, 1, 12) = V4InV6Prefix THEN SubSeq(ip, 13, 16)
    ELSE <<>>

\* net.IP.To16: the 16 bytes of an address
To16(ip) ==
    IF Len(ip) = 4 THEN V4InV6Prefix \o ip
    ELSE IF Len(ip) = 16 THEN ip
    ELSE <<>>

\* the zero value of nftables.SetDatatype
ZeroDatatype == [Name |-> "", Bytes |-> 0, nftMagic |-> 0]

\* an expression builder called with the arguments in call: its expressions, or an error
getExpr(call, ok) ==
    IF ok THEN [re |-> <<call>>, err |-> "nil"] ELSE [re |-> <<>>, err |-> "builder"]

getExprForIPVersion(version, excl, ok) ==
    getExpr([builder |-> "getExprForIPVersion", version |-> version, excl |-> excl], ok)

getExprForProtocol(l3proto, proto, excl, ok) ==
    getExpr([builder |-> "getExprForProtocol", l3proto |-> l3proto, proto |-> proto,
             excl |-> excl], ok)

getExprForListIPV2(l3proto, set, offset, excl, ok) ==
    getExpr([builder |-> "getExprForListIPV2", l3proto |-> l3proto, set |-> set.Name,
             offset |-> offset, excl |-> excl], ok)

getExprForRangeIP(l3proto, offset, rng, excl, ok) ==
    getExpr([builder |-> "getExprForRangeIP", l3proto |-> l3proto, offset |-> offset,
             rng |-> rng, excl |-> excl], ok)

\* the result of a field compiler: expressions, sets, the error and the builders called
Compiled(re, sets, err, calls) == [re |-> re, sets |-> sets, err |-> err, calls |-> calls]

\* the keys of processAddrList's elements
ListKeys(l3proto, list) ==
    [i \in 1..Len(list) |->
        [Key |-> IF l3proto = "ip" THEN To4(list[i].IP)
                 ELSE IF l3proto = "ip6" THEN To16(list[i].IP)
                 ELSE <<>>]]

\* processAddrList: sets holds the one nfSet, or nothing for nil
processAddrList(l3proto, offset, list, excl, rnd, ok) ==
    LET set == [Anonymous |-> FALSE, Constant |-> TRUE, Name |-> rnd.name, ID |-> rnd.id,
                KeyType |-> ZeroDatatype]
        se == ListKeys(l3proto, list)
        b == getExprForListIPV2(l3proto, set, offset, excl, ok)
    IN IF Len(se) = 0 THEN Compiled(<<>>, <<>>, "unknownfamily", <<>>)
       ELSE IF b.err # "nil"
       THEN Compiled(<<>>, <<>>, b.err, <<getExprForListIPV2(l3proto, set, offset, excl, TRUE).re[1]>>)
       ELSE Compiled(b.re, <<[set |-> set, elements |-> se]>>, "nil", b.re)

\* processAddrRange
processAddrRange(l3proto, offset, rng, excl, ok) ==
    LET b == getExprForRangeIP(l3proto, offset, rng, excl, ok)
    IN IF b.err # "nil"
       THEN Compiled(<<>>, <<>>, b.err, <<getExprForRangeIP(l3proto, offset, rng, excl, TRUE).re[1]>>)
       ELSE Compiled(b.re, <<>>, "nil", b.re)

\* processVersion
processVersion(version, excl, ok) ==
    LET b == getExprForIPVersion(version, excl, ok)
    IN IF b.err # "nil"
       THEN Compiled(<<>>, <<>>, b.err, <<getExprForIPVersion(version, excl, TRUE).re[1]>>)
       ELSE Compiled(b.re, <<>>, "nil", b.re)

\* processProtocol
processProtocol(l3proto, proto, excl, ok) ==
    LET b == getExprForProtocol(l3proto, proto, excl, ok)
    IN IF b.err # "nil"
       THEN Compiled(<<>>, <<>>, b.err, <<getExprForProtocol(l3proto, proto, excl, TRUE).re[1]>>)
       ELSE Compiled(b.re, <<>>, "nil", b.re)

\* the offsets with source and destination the other way round
addrOffsetSwapped(l3proto, src) ==
    CASE l3proto = "ip" -> IF src THEN 16 ELSE 12
      [] l3proto = "ip6" -> IF src THEN 24 ELSE 8
      [] OTHER -> 0

\* addrOffset after the switch of processIPAddr: 0 when no case applies
addrOffset(l3proto, src) ==
    CASE l3proto = "ip" -> IF src THEN 12 ELSE 16
      [] l3proto = "ip6" -> IF src THEN 8 ELSE 24
      [] OTHER -> 0

\* keyType after the switch of processIPAddr
addrKeyType(l3proto) ==
    CASE l3proto = "ip" -> TypeIPAddr
      [] l3proto = "ip6" -> TypeIP6Addr
      [] OTHER -> ZeroDatatype

\* set.set.KeyType = keyType for the sets a field compiler returned
WithKeyType(sets, keyType) == [i \in 1..Len(sets) |-> [sets[i] EXCEPT !.set.KeyType = keyType]]

\* processIPAddr that compiles the range ahead of the list
processIPAddrRangeFirst(l3proto, addrs, src, exclude, rnd, okList, okRange) ==
    LET offset == addrOffset(l3proto, src)
        keyType == addrKeyType(l3proto)
        hasRange == addrs.Range[1] # <<>> /\ addrs.Range[2] # <<>>
        r == processAddrRange(l3proto, offset, addrs.Range, exclude, okRange)
        callsR == IF hasRange THEN r.calls ELSE <<>>
        l == processAddrList(l3proto, offset, Head(addrs.List), exclude, rnd, okList)
    IN IF hasRange /\ r.err # "nil" THEN Compiled(<<>>, <<>>, r.err, r.calls)
       ELSE IF addrs.List = <<>>
       THEN Compiled(IF hasRange THEN r.re ELSE <<>>, <<>>, "nil", callsR)
       ELSE IF l.err # "nil" THEN Compiled(<<>>, <<>>, l.err, callsR \o l.calls)
       ELSE Compiled((IF hasRange THEN r.re ELSE <<>>) \o l.re,
                     WithKeyType(l.sets, keyType), "nil", callsR \o l.calls)

\* processIPAddr: the list, when there is one, then the range, when it has both ends
processIPAddr(l3proto, addrs, src, exclude, rnd, okList, okRange) ==
    LET offset == addrOffset(l3proto, src)
        keyType == addrKeyType(l3proto)
        hasList == addrs.List # <<>>
        l == processAddrList(l3proto, offset, Head(addrs.List), exclude, rnd, okList)
        callsL == IF hasList THEN l.calls ELSE <<>>
        reL == IF hasList THEN l.re ELSE <<>>
        setsL == IF hasList THEN WithKeyType(l.sets, keyType) ELSE <<>>
        r == processAddrRange(l3proto, offset, addrs.Range, exclude, okRange)
    IN IF hasList /\ l.err # "nil" THEN Compiled(<<>>, <<>>, l.err, l.calls)
       ELSE IF ~(addrs.Range[1] # <<>> /\ addrs.Range[2] # <<>>)
       THEN Compiled(reL, setsL, "nil", callsL)
       ELSE IF r.err # "nil" THEN Compiled(<<>>, <<>>, r.err, callsL \o r.calls)
       ELSE Compiled(reL \o r.re, setsL \o WithKeyType(r.sets, keyType), "nil",
                     callsL \o r.calls)

\* the fields of createL3 with the addresses ahead of the version and the protocol
L3FieldsAddrFirst == <<"Src", "Dst", "Version", "Protocol">>

\* the fields of the L3 part of a rule in the order createL3 looks at them
L3Fields == <<"Version", "Protocol", "Src", "Dst">>

\* the builder calls of one field of the rule
FieldCalls(f, calls) == [i \in 1..Len(calls) |-> [field |-> f, call |-> calls[i]]]

\* the fields of createL3 from the i-th on, after the fields compiled into acc
RECURSIVE createL3From(_, _, _, _, _, _)
createL3From(l3proto, rule, rnd, fail, i, acc) ==
    IF i > Len(L3Fields) THEN acc
    ELSE LET f == L3Fields[i]
             c == CASE f = "Version" -> processVersion(Head(rule.L3.Version), rule.Exclude,
                                                       fail # "version")
                    [] f = "Protocol" -> processProtocol(l3proto, Head(rule.L3.Protocol),
                                                         rule.Exclude, fail # "protocol")
                    [] f = "Src" -> processIPAddr(l3proto, Head(rule.L3.Src), TRUE,
                                                  rule.Exclude, rnd[1], fail # "srclist",
                                                  fail # "srcrange")
                    [] f = "Dst" -> processIPAddr(l3proto, Head(rule.L3.Dst), FALSE,
                                                  rule.Exclude, rnd[2], fail # "dstlist",
                                                  fail # "dstrange")
         IN IF rule.L3[f] = <<>> THEN createL3From(l3proto, rule, rnd, fail, i + 1, acc)
            ELSE IF c.err # "nil"
            THEN Compiled(<<>>, <<>>, c.err, acc.calls \o FieldCalls(f, c.calls))
            ELSE createL3From(l3proto, rule, rnd, fail, i + 1,
                              Compiled(acc.re \o c.re, acc.sets \o c.sets, "nil",
                                       acc.calls \o FieldCalls(f, c.calls)))

\* createL3: rnd are the set names and ids drawn, fail the builder that fails, if any
createL3(l3proto, rule, rnd, fail) ==
    createL3From(l3proto, rule, rnd, fail, 1, Compiled(<<>>, <<>>, "nil", <<>>))

----------------------------------------------------------------------------
(* The element and key-type functions applied to the inputs of callers *)

\* the sequences over S of length n at most
SeqsUpTo(S, n) == UNION {[1..k -> S] : k \in 0..n}

\* nil, and a pointer to each member of S
Pointers(S) == {<<>>} \cup {<<x>> : x \in S}

\* the key types callers name: the supported ones and the verdict type
KeyTypes == SupportedKeyTypes \cup {TypeVerdict}

\* a value with no field set
NoValue ==
    [Integer |-> <<>>, Mark |-> <<>>, IPAddr |-> <<>>, EtherAddr |-> <<>>,
     InetProto |-> <<>>, InetService |-> <<>>]

\* a value with every field set, the address being the given byte slice
FullValue(ip) ==
    [Integer |-> <<66051>>, Mark |-> <<255>>, IPAddr |-> <<ip>>,
     EtherAddr |-> <<<<2, 0, 0, 0, 0, 1>>>>, InetProto |-> <<6>>, InetService |-> <<8080>>]

\* the values callers pass: 192.0.2.1 as To4() gives it and as net.ParseIP gives it
ConcatValues ==
    {NoValue, FullValue(<<192, 0, 2, 1>>),
     FullValue(ZeroKey(10) \o <<255, 255, 192, 0, 2, 1>>)}

RuleActions == Pointers({[verdict |-> "accept"]})

\* the ElementValue of MakeElement: a key address and the three values of a map
ElementInputs ==
    [Addr : {"192.0.2.1", "::1", "bad"}, AddrIP : Pointers({"192.0.2.1", "::1", "bad"}),
     Port : Pointers({8080}), Action : RuleActions]

\* the table families rules are compiled for: IPv4, IPv6 and INET
L3Families == {"ip", "ip6", "inet"}

\* addresses as net.ParseIP gives them, 16 bytes long
Addr4(b) == [IP |-> V4InV6Prefix \o <<192, 0, 2, b>>]

Addr6(b) == [IP |-> <<32, 1>> \o ZeroKey(13) \o <<b>>]

\* the List of an IPAddrSpec: nil, empty, two IPv4 addresses, one IPv6 address
AddrLists == Pointers({<<>>, <<Addr4(2), Addr4(1)>>, <<Addr6(1)>>})

\* the Range of an IPAddrSpec: no end, or both ends
AddrRanges == {<<<<>>, <<>>>>, <<<<Addr4(1)>>, <<Addr4(9)>>>>}

\* the IPAddrSpec of a field: a list, a range, both, and a range with its first end only
AddrSpecs ==
    [List : AddrLists, Range : AddrRanges] \cup {[List |-> <<>>, Range |-> <<<<Addr4(1)>>, <<>>>>]}

\* the rules compiled: every L3 field nil or set, with one exclusion flag
L3Rules ==
    {[L3 |-> [Version |-> v, Protocol |-> p, Src |-> s, Dst |-> d], Exclude |-> x] :
        v \in Pointers({4}), p \in Pointers({6}), s \in Pointers(AddrSpecs),
        d \in Pointers(AddrSpecs), x \in BOOLEAN}

\* the name and the id getSetName() and rand.Intn give the set of a list
SetDraw(name, id) == [name |-> name, id |-> id]

\* what is drawn for the source and for the destination: distinct, or the same twice
SetDraws ==
    {<<SetDraw("set1", 0), SetDraw("set2", 65534)>>,
     <<SetDraw("set1", 65534), SetDraw("set1", 65534)>>}

\* the builder that returns an error, if one does
BuilderFailures ==
    {"none", "version", "protocol", "srclist", "srcrange", "dstlist", "dstrange"}

L3Args ==
    {[fn |-> "createL3", l3proto |-> f, rule |-> r, rnd |-> d, fail |-> x] :
        f \in L3Families, r \in L3Rules, d \in SetDraws, x \in BuilderFailures}
    \cup {[fn |-> "processIPAddr", l3proto |-> f, addrs |-> a, src |-> s, exclude |-> x,
            rnd |-> d[1], okList |-> okl, okRange |-> okr] :
            f \in L3Families, a \in AddrSpecs, s \in BOOLEAN, x \in BOOLEAN,
            d \in SetDraws, okl \in BOOLEAN, okr \in BOOLEAN}

PureArgs ==
    L3Args \cup
    {[fn |-> "GenSetKeyType", types |-> t] : t \in SeqsUpTo(KeyTypes, MaxKeys)}
    \cup {[fn |-> "MakeConcatElement", keys |-> k, vals |-> v, ra |-> ra] :
            k \in SeqsUpTo(KeyTypes, MaxKeys), v \in SeqsUpTo(ConcatValues, MaxKeys),
            ra \in RuleActions}
    \cup {[fn |-> "MakeElement", input |-> i] : i \in ElementInputs}

\* a caller holds the arguments of one call
InitPure ==
    /\ tables = EmptyMap
    /\ mu = "free"
    /\ kernel = EmptyMap
    /\ pending = <<>>
    /\ last = NoCall
    /\ hung = FALSE
    /\ ncalls = 0
    /\ arg \in PureArgs
    /\ pc = NoCallers

GenSetKeyTypeCall ==
    /\ arg.fn = "GenSetKeyType"
    /\ last = NoCall
    /\ last' = [op |-> "GenSetKeyType", out |-> GenSetKeyType(arg.types)]
    /\ UNCHANGED <<tables, mu, kernel, pending, hung, ncalls, arg, pc>>

MakeConcatElementCall ==
    /\ arg.fn = "MakeConcatElement"
    /\ last = NoCall
    /\ last' = [op |-> "MakeConcatElement",
                out |-> MakeConcatElement(arg.keys, arg.vals, arg.ra)]
    /\ UNCHANGED <<tables, mu, kernel, pending, hung, ncalls, arg, pc>>

MakeElementCall ==
    /\ arg.fn = "MakeElement"
    /\ last = NoCall
    /\ last' = [op |-> "MakeElement", out |-> MakeElement(arg.input)]
    /\ UNCHANGED <<tables, mu, kernel, pending, hung, ncalls, arg, pc>>

createL3Call ==
    /\ arg.fn = "createL3"
    /\ last = NoCall
    /\ last' = [op |-> "createL3", out |-> createL3(arg.l3proto, arg.rule, arg.rnd, arg.fail)]
    /\ UNCHANGED <<tables, mu, kernel, pending, hung, ncalls, arg, pc>>

processIPAddrCall ==
    /\ arg.fn = "processIPAddr"
    /\ last = NoCall
    /\ last' = [op |-> "processIPAddr",
                out |-> processIPAddr(arg.l3proto, arg.addrs, arg.src, arg.exclude, arg.rnd,
                                      arg.okList, arg.okRange)]
    /\ UNCHANGED <<tables, mu, kernel, pending, hung, ncalls, arg, pc>>

NextPure ==
    \/ GenSetKeyTypeCall
    \/ MakeConcatElementCall
    \/ MakeElementCall
    \/ createL3Call
    \/ processIPAddrCall

SpecPure == InitPure /\ [][NextPure]_vars

----------------------------------------------------------------------------
(* Properties of the table store *)

Key(l) == <<l.fam, l.name>>

KernelNames(k, f) == {key[2] : key \in {x \in DOMAIN k : x[1] = f}}

\* C1: a Create of (family, name) right after a Create of the same pair leaves the one
\* registry entry as it was (no record allocated, the registry unchanged), and each of
\* the two calls enqueued one add-table and flushed nothing
C1_CreateTwice ==
    [][(/\ last.op = "Create" /\ last.ret = "nil"
        /\ last'.op = "Create" /\ last'.ret = "nil"
        /\ Key(last') = Key(last))
       => /\ Cardinality({key \in LocalKeys(tables') : key = Key(last')}) = 1
          /\ tables' = tables
          /\ last'.alloc = {}
          /\ last.enq = <<AddTableOp(last.fam, last.name)>>
          /\ last'.enq = last.enq
          /\ Len(pending) >= 1 /\ pending[Len(pending)] = AddTableOp(last.fam, last.name)
          /\ pending' = Append(pending, AddTableOp(last.fam, last.name))
          /\ last.flush = <<>> /\ last'.flush = <<>>
          /\ kernel' = kernel]_vars

C1_Witness ==
    /\ last.op = "Create" /\ last.ret = "nil" /\ last.alloc = {}
    /\ Len(pending) >= 2
    /\ pending[Len(pending)] = AddTableOp(last.fam, last.name)
    /\ pending[Len(pending) - 1] = AddTableOp(last.fam, last.name)
    /\ HasTable(tables, last.fam, last.name)

\* C2: the registry never holds a family with no table, and the record under
\* (family, name) is the record of that table and of no other
C2_NoEmptyFamily ==
    /\ \A f \in DOMAIN tables :
          /\ DOMAIN tables[f] # {}
          /\ \A n \in DOMAIN tables[f] : tables[f][n].table = [Family |-> f, Name |-> n]
    /\ Cardinality(LocalKeys(tables)) =
          Cardinality({tables[key[1]][key[2]].table : key \in LocalKeys(tables)})

C2_Witness ==
    /\ last.op \in {"Delete", "DeleteImm"} /\ last.removed
    /\ last.fam \notin DOMAIN tables
    /\ DOMAIN tables # {}

\* C3: after Delete(name, family) has returned, Exist(name, family) is false when the
\* kernel has no such table, and the family is gone from the registry when the deleted
\* table was its last
C3_DeleteThenExist ==
    [][(last'.op = "Delete" /\ last'.ret = "nil")
       => LET f == last'.fam
              n == last'.name
          IN /\ <<f, n>> \notin DOMAIN kernel'
                   => \A listOk \in BOOLEAN : ~Exist(tables', kernel', n, f, listOk).ret
             /\ (HasTable(tables, f, n) /\ DOMAIN tables[f] = {n}) => f \notin DOMAIN tables']_vars

C3_Witness ==
    /\ last.op = "Delete" /\ last.ret = "nil" /\ last.removed
    /\ Key(last) \notin DOMAIN kernel
    /\ last.fam \notin DOMAIN tables
    /\ ~Exist(tables, kernel, last.name, last.fam, TRUE).ret

\* C4: Delete and DeleteImm always ask the kernel (the record is removed first) and enqueue
\* a delete-table exactly when the listing succeeds and holds the table; Delete flushes
\* nothing and returns nil, also for a table nobody knows; DeleteImm flushes once and
\* returns what Flush returned
C4_DeleteEnqueue ==
    [][(last'.op \in {"Delete", "DeleteImm"} /\ last'.ret # "blocked")
       => LET f == last'.fam
              n == last'.name
              listed == last'.list = "ok" /\ <<f, n>> \in DOMAIN kernel
          IN /\ last'.list # "none"
             /\ last'.enq = IF listed THEN <<DelTableOp(f, n)>> ELSE <<>>
             /\ ~HasTable(tables', f, n)
             /\ last'.op = "Delete"
                   => /\ last'.ret = "nil" /\ last'.flush = <<>>
                      /\ kernel' = kernel
                      /\ pending' = pending \o last'.enq
                      /\ (~HasTable(tables, f, n) /\ <<f, n>> \notin DOMAIN kernel)
                            => (tables' = tables /\ pending' = pending)
             /\ last'.op = "DeleteImm"
                   => /\ Len(last'.flush) = 1 /\ last'.ret = last'.flush[1]
                      /\ pending' = <<>>
                      /\ kernel' = IF last'.ret = "nil"
                                   THEN ApplyAll(kernel, pending \o last'.enq) ELSE kernel]_vars

C4_Witness ==
    /\ last.op = "Delete" /\ last.ret = "nil" /\ last.removed
    /\ last.enq = <<>> /\ last.list = "ok"
    /\ pending # <<>>

\* C5: CreateImm registers the table, enqueues one add-table and flushes once; it returns
\* nil when Flush returned nil or EEXIST and any other Flush error as it is
C5_CreateImm ==
    (last.op = "CreateImm" /\ last.ret # "blocked")
    => /\ HasTable(tables, last.fam, last.name)
       /\ last.enq = <<AddTableOp(last.fam, last.name)>>
       /\ Len(last.flush) = 1
       /\ pending = <<>>
       /\ last.ret = IF last.flush[1] \in {"nil", "EEXIST"} THEN "nil" ELSE last.flush[1]

C5_Witness ==
    /\ last.op = "CreateImm" /\ last.flush = <<"EEXIST">> /\ last.ret = "nil"
    /\ HasTable(tables, last.fam, last.name)

\* C6: Exist is true without a kernel listing for a table of the registry; otherwise it
\* lists, and is true exactly when the listing succeeds and holds a table of that family
\* and name
C6_Exist ==
    last.op = "Exist"
    => IF HasTable(tables, last.fam, last.name)
       THEN last.ret = TRUE /\ last.list = "none"
       ELSE /\ last.list \in {"ok", "err"}
            /\ last.ret = (last.list = "ok" /\ Key(last) \in DOMAIN kernel)

C6_Witness ==
    /\ last.op = "Exist" /\ last.ret = FALSE /\ last.list = "ok"
    /\ \E f \in Families \ {last.fam} : <<f, last.name>> \in DOMAIN kernel

\* C7: a Get that succeeds returns the names of the kernel's tables of the family, whatever
\* the registry holds, and Get changes neither the registry nor the queue
C7_Get ==
    [][last'.op = "Get"
       => /\ tables' = tables /\ pending' = pending /\ kernel' = kernel
          /\ last'.ret = "nil" => last'.names = KernelNames(kernel, last'.fam)]_vars

C7_Witness ==
    /\ last.op = "Get" /\ last.ret = "nil"
    /\ \E n \in last.names : ~HasTable(tables, last.fam, n)
    /\ \E n \in Names : HasTable(tables, last.fam, n) /\ n \notin last.names
    /\ pending # <<>>

C9_SyncOneTable ==
    [][(/\ last'.op = "Sync" /\ last'.ret \notin {"err"} /\ last'.list = "ok" /\ mu = "free"
        /\ \E n \in Names :
              /\ KernelNames(kernel, last'.fam) \ {m \in Names : HasTable(tables, last'.fam, m)} = {n}
              /\ kernel[<<last'.fam, n>>].sets # {}
              /\ kernel[<<last'.fam, n>>].chains # {})
       => LET f == last'.fam
              n == CHOOSE m \in KernelNames(kernel, f) : ~HasTable(tables, f, m)
          IN /\ last'.ret = "nil"
             /\ last'.alloc = {<<f, n>>}
             /\ LocalKeys(tables') = LocalKeys(tables) \cup {<<f, n>>}
             /\ DOMAIN tables'[f][n].sets = kernel[<<f, n>>].sets
             /\ tables'[f][n].chains = kernel[<<f, n>>].chains
             /\ \A key \in LocalKeys(tables) : tables'[key[1]][key[2]] = tables[key[1]][key[2]]]_vars

\* C10 (as claimed): Sets().Sync() whose kernel listing succeeds returns nil, with every
\* kernel set of the table in the set map, the sets known before unchanged and the set
\* store's lock free
C10_SetsSyncReturns ==
    [][(last'.op = "SetsSync" /\ last'.ret # "err")
       => LET f == last'.fam
              n == last'.name
          IN /\ last'.ret = "nil"
             /\ KernelSets(kernel, <<f, n>>) \subseteq DOMAIN tables'[f][n].sets
             /\ \A s \in DOMAIN tables[f][n].sets : tables'[f][n].sets[s] = tables[f][n].sets[s]
             /\ ~tables'[f][n].slock]_vars

----------------------------------------------------------------------------
(* Properties of the set store *)

\* the set store of the table the last call was made on, before and after the call
SetsOf(reg, l) == reg[l.table[1]][l.table[2]].sets

\* C11 (as claimed): CreateSet with Interval and an address key type hands AddSet the
\* interval-end element with the zero address of the family, then the caller's elements
\* in their order
C11_SentinelHandedToAddSet ==
    (/\ last.op = "CreateSet"
     /\ last.attrs.Interval
     /\ last.attrs.KeyType \in {TypeIPAddr, TypeIP6Addr})
    => last.handed = <<IntervalEndElement(last.table[1])>> \o last.elements

C13_DelSet ==
    [][last'.op = "DelSet"
       => LET l == last'
              found == /\ l.name \in DOMAIN SetsOf(tables, l)
                       /\ l.lookup
                       /\ l.name \in KernelSets(kernel, l.table)
          IN IF ~found
             THEN /\ l.ret = "nil" /\ l.enq = <<>> /\ l.flush = <<>>
                  /\ UNCHANGED <<tables, pending, kernel>>
             ELSE /\ l.enq = <<DelSetOp(l.table, SetsOf(tables, l)[l.name])>>
                  /\ Len(l.flush) = 1
                  /\ l.ret = l.flush[1]
                  /\ pending' = <<>>
                  /\ IF l.ret = "nil"
                     THEN /\ SetsOf(tables', l) = MapDel(SetsOf(tables, l), l.name)
                          /\ l.name \notin KernelSets(kernel', l.table)
                     ELSE UNCHANGED <<tables, kernel>>]_vars

\* the flush of the delete-set failed and the set is still in the map
C13_Witness ==
    /\ last.op = "DelSet"
    /\ last.flush = <<"EIO">>
    /\ last.ret = "EIO"
    /\ last.name \in DOMAIN SetsOf(tables, last)

\* C14: GetSetByName, GetSetElements, SetAddElements and SetDelElements of a name that is
\* not in the set map return the not-found error and enqueue and flush nothing, whatever
\* the kernel has; SetAddElements and SetDelElements that return nil enqueued one
\* operation and flushed it, the queue being empty afterwards
C14_UnknownSet ==
    [][last'.op \in {"GetSetByName", "GetSetElements", "SetAddElements", "SetDelElements"}
       => LET l == last'
          IN /\ l.name \notin DOMAIN SetsOf(tables, l)
                => /\ l.ret = "notfound" /\ l.enq = <<>> /\ l.flush = <<>>
                   /\ UNCHANGED <<tables, pending, kernel>>
             /\ (l.op \in {"SetAddElements", "SetDelElements"} /\ l.ret = "nil")
                => /\ Len(l.enq) = 1 /\ l.enq[1].set = SetsOf(tables, l)[l.name]
                   /\ l.flush = <<"nil">>
                   /\ pending' = <<>>]_vars

\* elements were to be added to a set that only the kernel has
C14_Witness ==
    /\ last.op = "SetAddElements"
    /\ last.ret = "notfound"
    /\ last.name \notin DOMAIN SetsOf(tables, last)
    /\ last.name \in KernelSets(kernel, last.table)

----------------------------------------------------------------------------
(* Properties of the accessors *)

AccessorKinds == [Table |-> "chains", TableChains |-> "chains", TableSets |-> "sets"]

\* C15: Table, TableChains and TableSets that return leave the registry as it is and
\* return the chain store (the set store for TableSets) of the table when the pair is
\* registered and the does-not-exist error when it is not, whatever the kernel has; right
\* after a Create of the pair, its add-table still queued, they return the store; right
\* after a Delete of the pair they return the error; right after a Sync that returned
\* nil they return the store of every kernel table of the family
C15_Accessors ==
    [][last'.op \in DOMAIN AccessorKinds
       => LET l == last'
              f == l.fam
              n == l.name
              store == [kind |-> AccessorKinds[l.op], table |-> [Family |-> f, Name |-> n]]
          IN /\ l.ret # "blocked"
                => /\ tables' = tables
                   /\ IF HasTable(tables, f, n)
                      THEN l.ret = "nil" /\ l.iface = store
                      ELSE l.ret = "notexist" /\ l.iface = NilInterface
             /\ (last.op = "Create" /\ last.ret = "nil" /\ Key(last) = <<f, n>>)
                => l.ret = "nil" /\ l.iface = store /\ AddTableOp(f, n) = pending[Len(pending)]
             /\ (last.op = "Delete" /\ last.ret = "nil" /\ Key(last) = <<f, n>>)
                => l.ret = "notexist"
             /\ (last.op = "Sync" /\ last.ret = "nil" /\ last.fam = f /\ <<f, n>> \in DOMAIN kernel)
                => l.ret = "nil" /\ l.iface = store]_vars

\* the set store of a table another process made is returned once Sync has absorbed it
C15_Witness ==
    /\ last.op = "TableSets"
    /\ last.ret = "nil"
    /\ Key(last) \in DOMAIN kernel
    /\ pending = <<>>

----------------------------------------------------------------------------
(* Properties of the element and key-type functions *)

\* the least multiple of 4 that is 4 at least and not below w
Aligned(w) == CHOOSE m \in 4..(w + 4) : m % 4 = 0 /\ m >= w /\ (m - 4 < w \/ m = 4)

RECURSIVE AlignedSum(_)
AlignedSum(types) ==
    IF types = <<>> THEN 0 ELSE Aligned(Head(types).Bytes) + AlignedSum(Tail(types))

\* C16: GenSetKeyType of no type is the invalid type; of one type it has the name and
\* the tag of the type and its width rounded up to a multiple of 4, 4 at least; of two
\* types or more its width is the sum of the widths so rounded
C16_KeyTypeWidth ==
    last.op = "GenSetKeyType"
    => LET types == arg.types IN
       /\ Len(types) = 0 => last.out = TypeInvalid
       /\ Len(types) = 1
          => /\ last.out.Name = types[1].Name
             /\ last.out.nftMagic = types[1].nftMagic
             /\ last.out.Bytes = Aligned(types[1].Bytes)
       /\ Len(types) >= 2 => last.out.Bytes = AlignedSum(types)

\* a 6-byte and a 1-byte type make a key type of 12 bytes
C16_Witness ==
    /\ last.op = "GenSetKeyType"
    /\ arg.types = <<TypeEtherAddr, TypeInetProto>>
    /\ last.out.Bytes = 12

RECURSIVE JoinedNames(_)
JoinedNames(types) ==
    IF types = <<>> THEN "" ELSE "_" \o Head(types).Name \o JoinedNames(Tail(types))

\* C17 (as claimed): GenSetKeyType of two types or more is named "concat" followed by
\* "_" and the name of each type, once and in order, with nothing after the last name
C17_KeyTypeName ==
    (last.op = "GenSetKeyType" /\ Len(arg.types) >= 2)
    => last.out.Name = "concat" \o JoinedNames(arg.types)

\* the field a supported key type needs is nil in the value
FieldAbsent(keyT, keyV) == keyT \in SupportedKeyTypes /\ KeyField(keyT, keyV) = <<>>

\* C18: MakeConcatElement returns an error and no element when the action is nil, when
\* there is no key type, when the values are not as many as the key types, and when a
\* key type is not supported or the field it needs is nil in its value
C18_ConcatElementErrors ==
    last.op = "MakeConcatElement"
    => LET keys == arg.keys
           vals == arg.vals
           bad == \/ arg.ra = <<>>
                  \/ Len(keys) = 0
                  \/ Len(keys) # Len(vals)
                  \/ \E i \in 1..Len(keys) :
                        keys[i] \notin SupportedKeyTypes \/ FieldAbsent(keys[i], vals[i])
       IN /\ bad => last.out.err # "nil" /\ last.out.element = <<>>
          /\ ~bad => last.out.err = "nil" /\ Len(last.out.element) = 1

\* the second of two values has no port for its service key type
C18_Witness ==
    /\ last.op = "MakeConcatElement"
    /\ arg.ra # <<>>
    /\ Len(arg.keys) = 2 /\ Len(arg.vals) = 2
    /\ arg.keys[2] = TypeInetService /\ arg.vals[2] = NoValue /\ arg.vals[1] # NoValue
    /\ arg.keys[1] = TypeIPAddr
    /\ last.out.err = "nilvalue"

\* C19 (as claimed): the key of the element of a MakeConcatElement that succeeds is as
\* long as the width of GenSetKeyType of the same key types
C19_KeyLengthIsWidth ==
    (last.op = "MakeConcatElement" /\ last.out.err = "nil")
    => Len(last.out.element[1].Key) = GenSetKeyType(arg.keys).Bytes

\* the family of the addresses callers write
FamilyOf(str) == IF str = "192.0.2.1" THEN "ip" ELSE IF str = "::1" THEN "ip6" ELSE "none"

\* the bytes of the addresses callers write
AddressBytes(str) == IF str \in DOMAIN ParsedIP THEN ParsedIP[str] ELSE <<>>

\* C20: MakeElement of a key address with an address value of the other family
\* returns an error and no element; MakeElement that succeeds attaches to the element of
\* the key address the address value when there is one, else the port when there is
\* one, else the action when there is one, and nothing else
C20_MakeElement ==
    last.op = "MakeElement"
    => LET in == arg.input
           out == last.out
       IN /\ (/\ in.AddrIP # <<>>
              /\ {FamilyOf(in.Addr), FamilyOf(Head(in.AddrIP))} = {"ip", "ip6"})
             => out.err # "nil" /\ out.elements = <<>>
          /\ out.err = "nil"
             => /\ Len(out.elements) >= 1
                /\ out.elements[1].Key = AddressBytes(in.Addr)
                /\ IF in.AddrIP # <<>>
                   THEN /\ out.elements[1].Val = AddressBytes(Head(in.AddrIP))
                        /\ out.elements[1].VerdictData = "nil"
                   ELSE IF in.Port # <<>>
                   THEN /\ out.elements[1].Val = <<8080 \div 256, 8080 % 256>>
                        /\ out.elements[1].VerdictData = "nil"
                   ELSE IF in.Action # <<>>
                   THEN /\ out.elements[1].Val = <<>>
                        /\ out.elements[1].VerdictData = Head(in.Action).verdict
                   ELSE /\ out.elements[1].Val = <<>>
                        /\ out.elements[1].VerdictData = "nil"

\* an IPv4 key with an IPv6 address value, a port and an action
C20_Witness ==
    /\ last.op = "MakeElement"
    /\ arg.input.Addr = "192.0.2.1"
    /\ arg.input.AddrIP = <<"::1">>
    /\ arg.input.Port # <<>> /\ arg.input.Action # <<>>
    /\ last.out.err = "mix"

----------------------------------------------------------------------------
(* Properties of the L3 compiler *)

\* what the compiler of one populated field of the rule gives, taken alone
FieldAlone(f) ==
    CASE f = "Version" -> processVersion(Head(arg.rule.L3.Version), arg.rule.Exclude,
                                         arg.fail # "version")
      [] f = "Protocol" -> processProtocol(arg.l3proto, Head(arg.rule.L3.Protocol),
                                           arg.rule.Exclude, arg.fail # "protocol")
      [] f = "Src" -> processIPAddr(arg.l3proto, Head(arg.rule.L3.Src), TRUE,
                                    arg.rule.Exclude, arg.rnd[1], arg.fail # "srclist",
                                    arg.fail # "srcrange")
      [] f = "Dst" -> processIPAddr(arg.l3proto, Head(arg.rule.L3.Dst), FALSE,
                                    arg.rule.Exclude, arg.rnd[2], arg.fail # "dstlist",
                                    arg.fail # "dstrange")

\* the expressions and the sets of a field, nothing for a field that is nil
FieldRe(f) == IF arg.rule.L3[f] = <<>> THEN <<>> ELSE FieldAlone(f).re

FieldSets(f) == IF arg.rule.L3[f] = <<>> THEN <<>> ELSE FieldAlone(f).sets

FieldFails(f) == arg.rule.L3[f] # <<>> /\ FieldAlone(f).err # "nil"

\* C21: createL3 whose field compilers all succeed returns the expressions of the
\* populated fields in the order version, protocol, source, destination and the sets of
\* the source ahead of those of the destination; createL3 with a field compiler that
\* fails returns the error, no expression and no set, and calls no builder for the fields
\* after it; every builder called got the exclusion flag of the rule
C21_FieldOrder ==
    last.op = "createL3"
    => LET out == last.out
           order == <<"Version", "Protocol", "Src", "Dst">>
           failing == {i \in 1..4 : FieldFails(order[i])}
       IN /\ \A i \in 1..Len(out.calls) : out.calls[i].call.excl = arg.rule.Exclude
          /\ IF failing = {}
             THEN /\ out.err = "nil"
                  /\ out.re = FieldRe("Version") \o FieldRe("Protocol") \o FieldRe("Src")
                                 \o FieldRe("Dst")
                  /\ out.sets = FieldSets("Src") \o FieldSets("Dst")
             ELSE /\ out.err # "nil"
                  /\ out.re = <<>>
                  /\ out.sets = <<>>
                  /\ \A i \in 1..Len(out.calls), j \in failing :
                        \E k \in 1..4 : order[k] = out.calls[i].field /\ k <= j

\* all four fields compiled under exclusion, each address field with a list and a range
C21_Witness ==
    /\ last.op = "createL3"
    /\ last.out.err = "nil"
    /\ arg.rule.Exclude
    /\ Len(last.out.re) = 6
    /\ Len(last.out.sets) = 2
    /\ last.out.re[1].builder = "getExprForIPVersion"
    /\ last.out.re[6].builder = "getExprForRangeIP"

\* the address datatype of a family
FamilyKeyType(l3proto) == IF l3proto = "ip" THEN TypeIPAddr ELSE TypeIP6Addr

\* C22: for IPv4 and IPv6, processIPAddr that succeeds on a non-empty list gives one set,
\* with the address datatype of the family as KeyType and one element for each address
\* of the list, in its order; on a range alone it gives expressions and no set; on a
\* list and a range it gives the expressions of the list, then those of the range
C22_ListAndRange ==
    (last.op = "processIPAddr" /\ arg.l3proto \in {"ip", "ip6"} /\ last.out.err = "nil")
    => LET out == last.out
           hasList == arg.addrs.List # <<>>
           list == Head(arg.addrs.List)
           hasRange == arg.addrs.Range[1] # <<>> /\ arg.addrs.Range[2] # <<>>
       IN /\ hasList
             => /\ Len(list) > 0
                /\ Len(out.sets) = 1
                /\ out.sets[1].set.KeyType = FamilyKeyType(arg.l3proto)
                /\ Len(out.sets[1].elements) = Len(list)
                /\ \A i \in 1..Len(list) :
                      out.sets[1].elements[i].Key =
                         IF arg.l3proto = "ip" THEN To4(list[i].IP) ELSE To16(list[i].IP)
                /\ out.re[1].builder = "getExprForListIPV2"
                /\ out.re[1].set = out.sets[1].set.Name
          /\ (~hasList /\ hasRange)
             => /\ out.sets = <<>>
                /\ Len(out.re) = 1 /\ out.re[1].builder = "getExprForRangeIP"
          /\ (hasList /\ hasRange)
             => /\ Len(out.re) = 2 /\ out.re[2].builder = "getExprForRangeIP"
          /\ (hasList /\ ~hasRange) => Len(out.re) = 1

\* an IPv6 destination with a list of two addresses and a range
C22_Witness ==
    /\ last.op = "processIPAddr"
    /\ arg.l3proto = "ip6" /\ ~arg.src
    /\ arg.addrs.List # <<>> /\ arg.addrs.Range[2] # <<>>
    /\ last.out.err = "nil"
    /\ Len(last.out.sets[1].elements) = 2
    /\ last.out.sets[1].set.KeyType = TypeIP6Addr

\* the header offset of the source and of the destination address of a family
HeaderOffset == [ip |-> [Src |-> 12, Dst |-> 16], ip6 |-> [Src |-> 8, Dst |-> 24]]

\* C23: in createL3 for IPv4 and IPv6, whatever the fields of the rule and its exclusion
\* flag, every list and range builder is called with offset 12 for an IPv4 source, 16
\* for an IPv4 destination, 8 for an IPv6 source and 24 for an IPv6 destination
C23_HeaderOffsets ==
    (last.op = "createL3" /\ arg.l3proto \in {"ip", "ip6"})
    => \A i \in 1..Len(last.out.calls) :
          LET c == last.out.calls[i] IN
          c.field \in {"Src", "Dst"} => c.call.offset = HeaderOffset[arg.l3proto][c.field]

\* an IPv6 rule with a version, a protocol, a source list and a destination range
C23_Witness ==
    /\ last.op = "createL3"
    /\ arg.l3proto = "ip6"
    /\ arg.rule.L3.Version # <<>> /\ arg.rule.L3.Protocol # <<>>
    /\ \E i, j \in 1..Len(last.out.calls) :
          /\ last.out.calls[i].field = "Src" /\ last.out.calls[i].call.offset = 8
          /\ last.out.calls[i].call.builder = "getExprForListIPV2"
          /\ last.out.calls[j].field = "Dst" /\ last.out.calls[j].call.offset = 24
          /\ last.out.calls[j].call.builder = "getExprForRangeIP"

\* C24 (as claimed): processIPAddr of a list or of a range for a family that is neither
\* IPv4 nor IPv6 returns the unsupported-family error, no expression and no set, and
\* calls no builder
C24_UnsupportedFamily ==
    (/\ last.op = "processIPAddr"
     /\ arg.l3proto \notin {"ip", "ip6"}
     /\ arg.okList /\ arg.okRange
     /\ \/ arg.addrs.List # <<>>
        \/ arg.addrs.Range[1] # <<>> /\ arg.addrs.Range[2] # <<>>)
    => /\ last.out.err = "unknownfamily"
       /\ last.out.re = <<>>
       /\ last.out.sets = <<>>
       /\ last.out.calls = <<>>

\* the length of the slot of a component of n bytes: n rounded up to a multiple of 4
SlotLen(n) == ((n + 3) \div 4) * 4

\* the slot of the i-th component: its bytes, then zeros up to the length of the slot
Slot(i) ==
    LET b == KeyBytes(arg.keys[i], Head(KeyField(arg.keys[i], arg.vals[i])))
    IN [j \in 1..SlotLen(Len(b)) |-> IF j <= Len(b) THEN b[j] ELSE 0]

\* the slots of the components from the i-th on, one after the other
RECURSIVE SlotsFrom(_)
SlotsFrom(i) == IF i > Len(arg.keys) THEN <<>> ELSE Slot(i) \o SlotsFrom(i + 1)

RECURSIVE SlotLenSum(_)
SlotLenSum(i) == IF i > Len(arg.keys) THEN 0 ELSE Len(Slot(i)) + SlotLenSum(i + 1)

\* C28: the key of the element of a MakeConcatElement that succeeds is the slots of its
\* components in the declared order, each slot holding the bytes of the component at
\* its start and zeros up to the next multiple of 4; the length of the key is a multiple
\* of 4 and the sum of the lengths of the slots
C28_ConcatSlots ==
    (last.op = "MakeConcatElement" /\ last.out.err = "nil")
    => LET key == last.out.element[1].Key
       IN /\ key = SlotsFrom(1)
          /\ Len(key) % 4 = 0
          /\ Len(key) = SlotLenSum(1)

\* a port in a slot of 4 bytes, then an Ethernet address in a slot of 8
C28_Witness ==
    /\ last.op = "MakeConcatElement"
    /\ last.out.err = "nil"
    /\ arg.keys = <<TypeInetService, TypeEtherAddr>>
    /\ last.out.element[1].Key = <<31, 144, 0, 0, 2, 0, 0, 0, 0, 1, 0, 0>>

----------------------------------------------------------------------------
(* Properties of the locks and of validation *)

\* C26 (as claimed): a call on the table store that returns, an error return included,
\* leaves the lock of the store free
C26_LockReleased ==
    (last.op \in {"Create", "CreateImm", "Delete", "DeleteImm", "Sync", "Get"}
        /\ last.ret # "blocked")
    => mu = "free"

\* C29 (as claimed): CreateSet of an interval set whose key type is not an address type
\* returns an error, hands the connection no add-set, makes no Flush and leaves the set
\* map as it was
C29_IntervalKeyValidated ==
    [][(/\ last'.op = "CreateSet"
        /\ last'.attrs.Interval
        /\ last'.attrs.KeyType \notin {TypeIPAddr, TypeIP6Addr})
       => (/\ last'.ret # "nil"
           /\ last'.enq = <<>>
           /\ last'.flush = <<>>
           /\ tables' = tables)]_vars

\* C30 (as claimed): after a Create, a DeleteImm of the same table that succeeds leaves
\* the table neither in the registry nor in the kernel, so that Exist would be false
C30_CreateThenDeleteImm ==
    [][(/\ last.op = "Create" /\ last.ret = "nil"
        /\ AddTableOp(last.fam, last.name) \in {pending[i] : i \in 1..Len(pending)}
        /\ last'.op = "DeleteImm" /\ last'.ret = "nil"
        /\ last'.name = last.name /\ last'.fam = last.fam)
       => (/\ ~HasTable(tables', last.fam, last.name)
           /\ Key(last) \notin DOMAIN kernel'
           /\ \A listOk \in BOOLEAN :
                 ~Exist(tables', kernel', last.name, last.fam, listOk).ret)]_vars

\* C25 (as claimed): under every interleaving of Create, Delete and Sync made by
\* concurrent callers, no two callers are at a statement that reads or writes the
\* registry at the same time
C25_RegistryUnderLock ==
    \A t, u \in Callers :
       (pc[t].at \in RegistryLabels /\ pc[u].at \in RegistryLabels) => t = u

\* C27 (as claimed): under every interleaving of DelSet, CreateSet, GetSetElements,
\* SetAddElements and SetDelElements made by concurrent callers on one table, the
\* descriptor a call hands the connection is never the nil one of a name the map no
\* longer holds
C27_NoNilDescriptor ==
    (last.op \in SetReaders \cup {"CreateSet"} /\ last.handed # <<>>)
    => Head(last.handed) # NilSet

\* C31 (as claimed): a CreateImm that returns an error leaves the registry as it was
\* before the call
C31_FailedCreateImmNotRegistered ==
    [][(last'.op = "CreateImm" /\ last'.ret \notin {"nil", "blocked"})
       => tables' = tables]_vars

====
